---- MODULE Spec2Model ----
(***************************************************************************)
(* A model of the trading orchestration engine of solana-agents:           *)
(*   - the Status Store and Logger           (logger.js)                   *)
(*   - the Scheduler                         (baseline/scheduler.js)       *)
(*   - the Balance Gate and the DCA cycle    (baseline/baseline-dca.js)    *)
(*   - the swap and transfer pipelines       (trading.js)                  *)
(* Each component has a specification of its own over the same variables:  *)
(* SpecStore, SpecSched, SpecGate, SpecTrade.                              *)
(* Time is counted in seconds; token amounts in units of 0.0001.           *)
(***************************************************************************)
EXTENDS Integers, Sequences, FiniteSets, TLC

(***************************************************************************)
(* Bounds of the model.                                                    *)
(***************************************************************************)
\* the clock of the scheduler specification stops here
MaxTime == 5
\* schedules registered in one run
MaxSchedules == 1
\* longest time a callback of the scheduler stays in flight, in seconds
MaxDuration == 2
\* seconds per UTC day of the scaled-down clock of daily-time schedules
DayLen == 4
\* operations of one run of the store specification
MaxStoreOps == 3

(***************************************************************************)
(* Program constants.                                                      *)
(***************************************************************************)
\* logger.js: const MAX_LOGS = 1000
MAX_LOGS == 1000
\* scheduler.js: setInterval(..., 5000), in seconds
HEARTBEAT_S == 5
\* scheduler.js: logCounter >= 12
LOG_EVERY == 12

VARIABLES
    \* ---- Status Store (logger.js)
    logs,             \* the log buffer, oldest first
    logSeq,           \* how many entries were ever appended (an entry's identity)
    currentStatus,    \* the singleton snapshot
    \* ---- the consumer of the store (GET /status), and what was last written
    lastRead,         \* what the latest getStatus() returned
    prevRead,         \* what the getStatus() before it returned
    readsSince,       \* getStatus() calls since the latest write of the snapshot
    lastWritten,      \* the arguments of the latest publish, or the reset values
    storeOps,         \* operations done so far in the store specification
    \* ---- Scheduler (scheduler.js)
    now,              \* the clock
    activeSchedules,  \* id -> schedule record (the Map)
    nextScheduleId,
    timers,           \* armed setInterval / setTimeout timers of schedules
    nextTimerId,
    statusUpdateInterval, \* the heartbeat timer: NoTimer or [due |-> t, ticks |-> its fires so far]
    logCounter,
    inflight,         \* executions whose callback is awaiting
    nextExecId,
    fired,            \* id -> the starts of its callback, in order (history)
    stoppedIds,       \* ids for which stopSchedule returned true (history)
    stopResult,       \* what the latest stopSchedule / stopAllSchedules returned
    registerResult,   \* how the latest scheduleInterval / scheduleTimes ended
    \* ---- Balance Gate, DCA cycle (baseline-dca.js), swap and transfer (trading.js)
    balanceWait,      \* the call of waitForBalance: position, polls, sleeps, result
    cycle,            \* the immediate execution of baselineFunction
    swapCall,         \* the call of swap: position, requests made, waits, result
    transferCall,     \* the call of transfer: position, requests made, result
    \* ---- price monitoring (baseline-range.js), and single computations
    probe,            \* one application of a function: its input and its output
    priceWait,        \* the call of waitForPriceCondition: position, polls, result
    \* ---- the token directory (trading.js, getJupiterTokens)
    jupiterTokensCache,     \* null, or the list a fetch delivered
    jupiterTokensCacheTime,
    tokenFetches,     \* the calls of getJupiterTokens awaiting their fetch
    nextTokenCall,
    tokenResult,      \* how the latest call of getJupiterTokens to end has ended
    \* ---- the Range driver (baseline-range.js, baselineFunction)
    rangeCall,        \* the call of baselineFunction: position and arguments
    rangeLoop,        \* monitoringInterval: NoTimer or [due |-> t]
    rangeTicks,       \* the calls of executeTrading so far, in the order they began
    \* ---- the DCA driver with its schedule (baseline-dca.js, baselineFunction)
    dcaCalls,         \* the calls of baselineFunction so far: the user's, then the callbacks'
    \* ---- the server's POST /withdraw (server.js)
    withdrawal,       \* the latest request: what was sent, how far it is, the response
    \* ---- the agent's wallet on chain
    funds,            \* its SOL balance, and how often it was topped up
    \* ---- the Custom driver under a schedule
    custom,           \* the schedules it registered and the calls of its baselineFunction
    \* ---- the frontend's ApiService
    deployments       \* the DeploymentQueue and the deployments asked for

storeVars == <<logs, logSeq, currentStatus>>
readVars  == <<lastRead, prevRead, readsSince, lastWritten, storeOps>>
\* the scheduler's state without the clock
timerVars == <<activeSchedules, nextScheduleId, timers, nextTimerId,
               statusUpdateInterval, logCounter, inflight, nextExecId,
               fired, stoppedIds, stopResult, registerResult>>
schedVars == <<now, activeSchedules, nextScheduleId, timers, nextTimerId,
               statusUpdateInterval, logCounter, inflight, nextExecId,
               fired, stoppedIds, stopResult, registerResult>>
tradeVars == <<balanceWait, cycle, swapCall, transferCall>>
cacheVars == <<jupiterTokensCache, jupiterTokensCacheTime, tokenFetches, nextTokenCall,
               tokenResult>>
driverVars == <<rangeCall, rangeLoop, rangeTicks, dcaCalls>>
sideVars == <<withdrawal, funds, custom, deployments>>
moreVars == <<cacheVars, driverVars, sideVars>>
rangeVars == <<probe, priceWait, moreVars>>
vars == <<storeVars, readVars, schedVars, tradeVars, rangeVars>>

Null == [null |-> TRUE]

(***************************************************************************)
(* Status Store and Logger.                                                *)
(***************************************************************************)
\* a Logger.log that pushes and never shifts
LoggerLogNoShift(L, message, level) ==
    [logs |-> Append(L.logs, [id |-> L.seq + 1, level |-> level, message |-> message]),
     seq  |-> L.seq + 1]

\* Logger.log: push, then shift when longer than MAX_LOGS.  L is the pair
\* [logs, seq]; the entry's id is its ordinal.
LoggerLog(L, message, level) ==
    LET pushed == Append(L.logs, [id |-> L.seq + 1, level |-> level, message |-> message])
    IN  [logs |-> IF Len(pushed) > MAX_LOGS THEN Tail(pushed) ELSE pushed,
         seq  |-> L.seq + 1]

\* Logger.clearLogs: this.logs.length = 0
LoggerClear(L) == [logs |-> <<>>, seq |-> L.seq]

\* the object updateStatus assigns to currentStatus
StatusObject(stage, success, details, scheduleInfo, t) ==
    [stage |-> stage, timestamp |-> t, success |-> success,
     details |-> details, schedule |-> scheduleInfo]

\* an updateStatus that keeps the old schedule when none is given
UpdateStatusOverKeeping(old, stage, success, details, scheduleInfo, t) ==
    StatusObject(stage, success, details,
                 IF scheduleInfo = Null THEN old.schedule ELSE scheduleInfo, t)

\* updateStatus over the snapshot old: the whole object is replaced
UpdateStatusOver(old, stage, success, details, scheduleInfo, t) ==
    StatusObject(stage, success, details, scheduleInfo, t)

\* the logging half of updateStatus
UpdateStatusLog(L, stage, success, shouldLog) ==
    IF ~shouldLog THEN L
    ELSE IF success = "false" THEN LoggerLog(L, stage, "error")
    ELSE LoggerLog(L, stage, "info")

\* resetStatus
IdleStatus(t) == StatusObject("idle", "null", [none |-> TRUE], Null, t)

(***************************************************************************)
(* The idle values of each component, for the specifications of the others.*)
(***************************************************************************)
NoTimer == [armed |-> FALSE]

StoreIdle ==
    /\ logs = <<>>
    /\ logSeq = 0
    /\ currentStatus = IdleStatus(0)

ReadIdle ==
    /\ lastRead = Null
    /\ prevRead = Null
    /\ readsSince = 0
    /\ lastWritten = IdleStatus(0)
    /\ storeOps = 0

\* no schedule* call has ended yet
NoRegistration == [id |-> 0, threw |-> FALSE]

SchedIdle ==
    /\ now = 0
    /\ activeSchedules = <<>>
    /\ nextScheduleId = 1
    /\ timers = {}
    /\ nextTimerId = 1
    /\ statusUpdateInterval = NoTimer
    /\ logCounter = 0
    /\ inflight = {}
    /\ nextExecId = 1
    /\ fired = [s \in 1..MaxSchedules |-> <<>>]
    /\ stoppedIds = {}
    /\ stopResult = Null
    /\ registerResult = NoRegistration

\* an error message: what it says, and which of the words that the swap's
\* catch block looks for it contains
NoMessage == [text |-> "absent", words |-> {}]

\* a result object before it exists; "absent" marks a field the object lacks
NoResult == [success |-> "none", error |-> NoMessage, errorCategory |-> "absent",
             signature |-> "absent", executionType |-> "absent"]

\* no call of waitForBalance / baselineFunction / swap / transfer in progress
NoBalanceWait == [pc |-> "idle", min |-> 0, polls |-> <<>>, sleeps |-> <<>>, result |-> 0]
NoCycle == [pc |-> "idle", fromToken |-> "none", amount |-> 0,
            hasToken |-> FALSE, uiAmount |-> 0, result |-> NoResult]
NoSwap == [pc |-> "idle", maxRetries |-> 0, confirmTransaction |-> FALSE, attempt |-> 0,
           quoteRequests |-> 0, quoteAnswers |-> <<>>, quoteWaits |-> <<>>,
           swapRequests |-> 0, swapAnswers |-> <<>>, swapWaits |-> <<>>,
           signRequests |-> 0, hash |-> "absent", confirmation |-> "none",
           result |-> NoResult]
NoTransfer == [pc |-> "idle", token |-> "none", signRequests |-> 0, hash |-> "absent",
               confirmation |-> "none", result |-> NoResult]

TradeIdle ==
    /\ balanceWait = NoBalanceWait
    /\ cycle = NoCycle
    /\ swapCall = NoSwap
    /\ transferCall = NoTransfer

\* no computation under way, no call of waitForPriceCondition in progress
NoProbe == [fn |-> "none"]
NoPriceWait == [pc |-> "idle", startTime |-> 0, maxWaitTime |-> 0, targetPrice |-> 0,
                above |-> FALSE, polls |-> <<>>, sleeps |-> <<>>,
                result |-> [success |-> "none", error |-> "absent", conditionMet |-> FALSE,
                            hasPrice |-> FALSE, currentPrice |-> 0, timeout |-> FALSE]]

\* let jupiterTokensCache = null
NoList == 0
NoTokenResult == [call |-> 0, kind |-> "none", list |-> NoList, requested |-> FALSE,
                  hadCache |-> FALSE, age |-> 0, refresh |-> "none", cacheBefore |-> NoList]
CacheIdle ==
    /\ jupiterTokensCache = NoList
    /\ jupiterTokensCacheTime = 0
    /\ tokenFetches = {}
    /\ nextTokenCall = 1
    /\ tokenResult = NoTokenResult

\* no call of the Range driver yet: no loop, no execution
NoRangeCall == [pc |-> "idle", fromToken |-> "none", amount |-> 0, monitor |-> FALSE,
                targetPrice |-> 0, above |-> FALSE]
DriverIdle ==
    /\ rangeCall = NoRangeCall
    /\ rangeLoop = NoTimer
    /\ rangeTicks = <<>>
    /\ dcaCalls = <<>>

\* no request to POST /withdraw yet
NoRequest == [apiKeyHeader |-> "absent", apiKeyBody |-> "absent", tokenSymbol |-> "absent",
              destinationAddress |-> [type |-> "undefined", value |-> 0, length |-> 0],
              amount |-> [type |-> "undefined", value |-> 0, length |-> 0]]
NoResponse == [status |-> 0, success |-> "none", error |-> "absent", signature |-> "absent"]
NoWithdrawal == [pc |-> "idle", request |-> NoRequest, response |-> NoResponse,
                 transfers |-> 0, served |-> 0]
\* a wallet that was just created holds nothing
NoFunds == [sol |-> 0, deposits |-> 0]
\* the Custom driver before anything was called
NoCustom == [schedules |-> <<>>, calls |-> <<>>]
\* new DeploymentQueue(), and no call of deployAgent yet
NoDeployments ==
    [queue |-> <<>>, isProcessing |-> FALSE, pc |-> "idle", running |-> 0,
     jobs |-> <<>>, started |-> <<>>]
SideIdle ==
    /\ withdrawal = NoWithdrawal
    /\ funds = NoFunds
    /\ custom = NoCustom
    /\ deployments = NoDeployments

MoreIdle == CacheIdle /\ DriverIdle /\ SideIdle

RangeIdle ==
    /\ probe = NoProbe
    /\ priceWait = NoPriceWait
    /\ MoreIdle

(***************************************************************************)
(* SpecStore: the Status Store under its callers' operations.              *)
(***************************************************************************)
Levels == {"info", "warn", "error"}
Successes == {"null", "true", "false"}
\* a schedule info as getScheduleInfo builds it, for the scheduleInfo argument
SomeScheduleInfo == [id |-> 1, type |-> "interval", intervalMs |-> 1, nextExecutionIn |-> 1]

\* the buffer after n appends of logger.info to the empty buffer
FilledLogs(n) == [i \in 1..n |-> [id |-> i, level |-> "info", message |-> "filled"]]

StoreInit ==
    /\ \E n \in {0, MAX_LOGS - 1, MAX_LOGS} :
          /\ logs = FilledLogs(n)
          /\ logSeq = n
    /\ currentStatus = IdleStatus(0)
    /\ ReadIdle
    /\ SchedIdle
    /\ TradeIdle
    /\ RangeIdle

StoreStep ==
    /\ storeOps < MaxStoreOps
    /\ storeOps' = storeOps + 1

\* logger.log / logger.info / logger.warn / logger.error
DoLog(level) ==
    /\ StoreStep
    /\ LET L == LoggerLog([logs |-> logs, seq |-> logSeq], "direct", level)
       IN  logs' = L.logs /\ logSeq' = L.seq
    /\ UNCHANGED <<currentStatus, lastRead, prevRead, readsSince, lastWritten, schedVars, tradeVars, rangeVars>>

\* logger.clearLogs (POST /clear)
DoClearLogs ==
    /\ StoreStep
    /\ LET L == LoggerClear([logs |-> logs, seq |-> logSeq])
       IN  logs' = L.logs /\ logSeq' = L.seq
    /\ UNCHANGED <<currentStatus, lastRead, prevRead, readsSince, lastWritten, schedVars, tradeVars, rangeVars>>

\* updateStatus(stage, message, success, details, scheduleInfo, shouldLog)
DoUpdateStatus(stage, success, scheduleInfo, shouldLog) ==
    /\ StoreStep
    /\ currentStatus' = UpdateStatusOver(currentStatus, stage, success, [op |-> storeOps],
                                         scheduleInfo, now)
    /\ LET L == UpdateStatusLog([logs |-> logs, seq |-> logSeq], stage, success, shouldLog)
       IN  logs' = L.logs /\ logSeq' = L.seq
    /\ lastWritten' = [stage |-> stage, timestamp |-> now, success |-> success,
                       details |-> [op |-> storeOps], schedule |-> scheduleInfo]
    /\ readsSince' = 0
    /\ UNCHANGED <<lastRead, prevRead, schedVars, tradeVars, rangeVars>>

\* resetStatus()
DoResetStatus ==
    /\ StoreStep
    /\ currentStatus' = IdleStatus(now)
    /\ lastWritten' = [stage |-> "idle", timestamp |-> now, success |-> "null",
                       details |-> [none |-> TRUE], schedule |-> Null]
    /\ readsSince' = 0
    /\ UNCHANGED <<logs, logSeq, lastRead, prevRead, schedVars, tradeVars, rangeVars>>

\* what getStatus returns
GetStatusResult(st) == st
\* a getStatus that hands the snapshot out and leaves the idle one behind
GetStatusStoreConsuming(st) == IdleStatus(st.timestamp)
\* the store getStatus leaves: it only reads
GetStatusStore(st) == st

\* getStatus() (GET /status with no schedule in the snapshot)
DoGetStatus ==
    /\ StoreStep
    /\ lastRead' = GetStatusResult(currentStatus)
    /\ prevRead' = lastRead
    /\ readsSince' = readsSince + 1
    /\ currentStatus' = GetStatusStore(currentStatus)
    /\ UNCHANGED <<logs, logSeq, lastWritten, schedVars, tradeVars, rangeVars>>

\* logger.updateScheduleStatus(info): currentStatus.schedule = info, in place
SetScheduleInPlace(st, info) == [st EXCEPT !.schedule = info]

\* the tail of a DCA registration, one synchronous block:
\* updateScheduleStatus(currentSchedule), then updateStatus('scheduled', ..., true, ...)
DoRegisterTail ==
    /\ StoreStep
    /\ currentStatus' = UpdateStatusOver(SetScheduleInPlace(currentStatus, SomeScheduleInfo),
                                         "scheduled", "true", [op |-> storeOps], Null, now)
    /\ LET L == UpdateStatusLog([logs |-> logs, seq |-> logSeq], "scheduled", "true", TRUE)
       IN  logs' = L.logs /\ logSeq' = L.seq
    /\ lastWritten' = [stage |-> "scheduled", timestamp |-> now, success |-> "true",
                       details |-> [op |-> storeOps], schedule |-> Null]
    /\ readsSince' = 0
    /\ UNCHANGED <<lastRead, prevRead, schedVars, tradeVars, rangeVars>>

\* time passes between two operations
StoreTick ==
    /\ StoreStep
    /\ now' = now + 1
    /\ UNCHANGED <<storeVars, lastRead, prevRead, readsSince, lastWritten,
                   activeSchedules, nextScheduleId, timers, nextTimerId,
                   statusUpdateInterval, logCounter, inflight, nextExecId,
                   fired, stoppedIds, stopResult, registerResult, tradeVars, rangeVars>>

StoreNext ==
    \/ \E level \in Levels : DoLog(level)
    \/ DoClearLogs
    \/ \E success \in Successes, info \in {Null, SomeScheduleInfo}, shouldLog \in BOOLEAN :
          DoUpdateStatus("executing", success, info, shouldLog)
    \/ DoResetStatus
    \/ DoGetStatus
    \/ DoRegisterTail
    \/ StoreTick

SpecStore == StoreInit /\ [][StoreNext]_vars

(***************************************************************************)
(* Claims settled under SpecStore.                                         *)
(***************************************************************************)
\* C9: after any sequence of appends (direct logger calls, logging
\* publishes) and clearLogs calls the buffer holds at most MAX_LOGS entries,
\* and they are the most recently appended ones in append order: the ids in
\* the buffer are consecutive and end at the ordinal of the latest append, so
\* an append to a full buffer evicted exactly the oldest entry.
C9_LogBufferBounded ==
    /\ Len(logs) <= MAX_LOGS
    /\ \A i \in 1..Len(logs) : logs[i].id = logSeq - Len(logs) + i

\* C9 witness: entry 1001 was appended to the full buffer and entry 1 is gone.
C9_Witness ==
    /\ logSeq = MAX_LOGS + 1
    /\ Len(logs) = MAX_LOGS
    /\ logs[1].id = 2
    /\ logs[MAX_LOGS].id = MAX_LOGS + 1

SchedIds == 1..MaxSchedules

\* the Map without key id
MapDelete(m, id) == [k \in DOMAIN m \ {id} |-> m[k]]
\* the Map with key id set
MapSet(m, id, v) == [k \in DOMAIN m \cup {id} |-> IF k = id THEN v ELSE m[k]]

\* result?.success || true
RecordedSuccess(result) ==
    LET reported == IF result = "resolveFail" THEN FALSE ELSE TRUE
    IN  IF reported \/ TRUE THEN "true" ELSE "false"

\* the lastExecution the wrapper stores when the callback of execution e
\* has settled with outcome at time t
ExecutionRecord(e, outcome, t) ==
    IF outcome = "reject"
    THEN [fire |-> e.eid, timestamp |-> t, success |-> "false", error |-> "message"]
    ELSE [fire |-> e.eid, timestamp |-> t, duration |-> t - e.start,
          success |-> RecordedSuccess(outcome), details |-> outcome]

\* a wrapper that stores nothing when the callback threw
StoreLastExecutionDroppingErrors(m, e, outcome, t) ==
    IF e.sid \in DOMAIN m /\ outcome # "reject"
    THEN MapSet(m, e.sid, [m[e.sid] EXCEPT !.lastExecution = ExecutionRecord(e, outcome, t)])
    ELSE m

\* a wrapper that keeps the record of the execution that started last
StoreLastExecutionOfLatestStart(m, e, outcome, t) ==
    IF e.sid \in DOMAIN m /\ (m[e.sid].lastExecution = Null \/ m[e.sid].lastExecution.fire < e.eid)
    THEN MapSet(m, e.sid, [m[e.sid] EXCEPT !.lastExecution = ExecutionRecord(e, outcome, t)])
    ELSE m

\* wrappedFunction after the await (or in its catch):
\* const schedule = activeSchedules.get(scheduleId); if (schedule) schedule.lastExecution = ...
StoreLastExecution(m, e, outcome, t) ==
    IF e.sid \in DOMAIN m
    THEN MapSet(m, e.sid, [m[e.sid] EXCEPT !.lastExecution = ExecutionRecord(e, outcome, t)])
    ELSE m

\* Number(s) of a string that is no number
NaN == -1

\* parsedTimes: the times sorted ascending; a comparison with NaN leaves the
\* order as it is
RECURSIVE SortTimes(_)
SortTimes(ts) ==
    IF Len(ts) <= 1 THEN ts
    ELSE LET rest == SortTimes(Tail(ts))
             h == Head(ts)
             smaller == SelectSeq(rest, LAMBDA x : x # NaN /\ h # NaN /\ x < h)
             others == SelectSeq(rest, LAMBDA x : ~(x # NaN /\ h # NaN /\ x < h))
         IN  smaller \o <<h>> \o others

\* a scheduleNext that takes a time equal to now for a time still to come
NextExecutionInNotStrict(pt, t, day) ==
    LET todayUtc == (t \div day) * day
        later == SelectSeq(pt, LAMBDA x : x # NaN /\ todayUtc + x >= t)
    IN  IF Len(later) > 0 THEN todayUtc + later[1]
        ELSE todayUtc + day + pt[1]

\* scheduleNext: the next execution time for the sorted parsedTimes pt at time
\* t, with days of length day: the first time of today after t, else the
\* first time of tomorrow
NextExecutionIn(pt, t, day) ==
    LET todayUtc == (t \div day) * day
        later == SelectSeq(pt, LAMBDA x : x # NaN /\ todayUtc + x > t)
    IN  IF Len(later) > 0 THEN todayUtc + later[1]
        ELSE todayUtc + day + pt[1]

\* scheduleNext on the scaled-down clock of the scheduler specification
NextExecution(pt, t) == NextExecutionIn(pt, t, DayLen)

\* a scheduleNext that arms nothing once the schedule has left the active set
ArmNextIfActive(m, sid) == sid \in DOMAIN m
\* scheduleNext arms its timeout whether or not the schedule is in the Map
ArmNext(m, sid) == TRUE

\* getScheduleInfo: the info of schedule id
ScheduleInfo(m, id, t) ==
    IF m[id].type = "interval"
    THEN LET elapsed == t - m[id].startTime
             nextIn == m[id].intervalMs - (elapsed % m[id].intervalMs)
         IN  [id |-> id, type |-> "interval", startTime |-> m[id].startTime,
              intervalMs |-> m[id].intervalMs,
              nextExecutionIn |-> IF nextIn > 0 THEN nextIn ELSE 0,
              nextExecutionTime |-> t + (IF nextIn > 0 THEN nextIn ELSE 0),
              executeImmediately |-> m[id].executeImmediately]
    ELSE [id |-> id, type |-> "times", startTime |-> m[id].startTime,
          times |-> m[id].times, nextExecution |-> m[id].nextExecution]

\* schedules[0]: the first key of the Map in insertion order
FirstSchedule(m) == CHOOSE id \in DOMAIN m : \A other \in DOMAIN m : id <= other

\* the details updateScheduleStatus publishes for the first schedule
HeartbeatDetails(m, t) ==
    LET id == FirstSchedule(m)
        info == ScheduleInfo(m, id, t)
    IN  [currentTime |-> t, schedule |-> info, lastExecution |-> m[id].lastExecution]

\* how a call of the callback goes: it returns a promise, or throws before
\* returning one
CallStyles == {"async", "throwSync"}
\* how a returned promise settles: fulfilled with a result without a failure
\* flag, fulfilled with {success: false}, or rejected with an Error
Outcomes == {"resolveOk", "resolveFail", "reject"}

\* startStatusUpdates: arms the heartbeat unless it is running
HeartbeatAfterStart(hb, t) ==
    IF hb.armed THEN hb ELSE [armed |-> TRUE, due |-> t + HEARTBEAT_S, ticks |-> 0]
LogCounterAfterStart(hb, c) == IF hb.armed THEN c ELSE 0

\* the start of wrappedFunction for schedule sid: the callback is called
Started(sid, by) == [fired EXCEPT ![sid] = Append(@, [at |-> now, by |-> by])]

\* the timer setInterval arms when asked for an interval longer by one
IntervalTimerLate(tid, sid, intervalMs, t) ==
    [id |-> tid, sid |-> sid, kind |-> "interval", due |-> t + intervalMs + 1,
     period |-> intervalMs + 1, times |-> <<>>]
\* setInterval(wrappedFunction, intervalMs) at time t
IntervalTimer(tid, sid, intervalMs, t) ==
    [id |-> tid, sid |-> sid, kind |-> "interval", due |-> t + intervalMs,
     period |-> intervalMs, times |-> <<>>]

\* scheduleInterval(executeFunction, intervalMs, executeImmediately)
RegisterIntervalEffect(intervalMs, executeImmediately, style) ==
    LET sid == nextScheduleId
        e == [eid |-> nextExecId, sid |-> sid, start |-> now, chain |-> FALSE,
              times |-> <<>>]
    IN
    /\ nextScheduleId' = nextScheduleId + 1
    \* if (executeImmediately) wrappedFunction(): the schedule is not in the
    \* Map yet, so a callback that throws at once leaves no record
    /\ IF executeImmediately
       THEN /\ fired' = Started(sid, "immediate")
            /\ nextExecId' = nextExecId + 1
            /\ inflight' = IF style = "async" THEN inflight \cup {e} ELSE inflight
       ELSE UNCHANGED <<fired, nextExecId, inflight>>
    /\ timers' = timers \cup {IntervalTimer(nextTimerId, sid, intervalMs, now)}
    /\ nextTimerId' = nextTimerId + 1
    /\ activeSchedules' = MapSet(activeSchedules, sid,
          [type |-> "interval", timerId |-> nextTimerId, intervalMs |-> intervalMs,
           executeImmediately |-> executeImmediately, startTime |-> now,
           lastExecution |-> Null])
    /\ statusUpdateInterval' = HeartbeatAfterStart(statusUpdateInterval, now)
    /\ logCounter' = LogCounterAfterStart(statusUpdateInterval, logCounter)
    /\ registerResult' = [id |-> sid, threw |-> FALSE]
    /\ UNCHANGED <<now, stoppedIds, stopResult>>

RegisterInterval(intervalMs, executeImmediately, style) ==
    /\ RegisterIntervalEffect(intervalMs, executeImmediately, style)
    /\ UNCHANGED <<storeVars, readVars, tradeVars, rangeVars>>

\* scheduleInterval, for as many schedules as the specification allows
ScheduleInterval(intervalMs, executeImmediately, style) ==
    /\ nextScheduleId <= MaxSchedules
    /\ RegisterInterval(intervalMs, executeImmediately, style)

\* scheduleNext for schedule sid with parsedTimes pt: arms the timeout and,
\* if the schedule is in the Map m, notes the timeout and the time in it
TimeoutTimer(tid, sid, pt, t) ==
    [id |-> tid, sid |-> sid, kind |-> "timeout", due |-> NextExecution(pt, t),
     period |-> 0, times |-> pt]
NoteNext(m, sid, tid, pt, t) ==
    IF sid \in DOMAIN m
    THEN MapSet(m, sid, [m[sid] EXCEPT !.timerId = tid, !.nextExecution = NextExecution(pt, t)])
    ELSE m

\* scheduleNext throws: with no time at all firstTime is undefined, and with
\* no time left today and a first time that is no number the date of the
\* next execution is invalid
NextThrows(pt, t, day) ==
    LET todayUtc == (t \div day) * day
        later == SelectSeq(pt, LAMBDA x : x # NaN /\ todayUtc + x > t)
    IN  Len(later) = 0 /\ (Len(pt) = 0 \/ pt[1] = NaN)

\* scheduleTimes(executeFunction, times): the schedule is put in the Map,
\* then scheduleNext runs, then the heartbeat starts; when scheduleNext throws
\* the call ends there
ScheduleTimesEffect(times) ==
    LET sid == nextScheduleId
        pt == SortTimes(times)
        registered == MapSet(activeSchedules, sid,
              [type |-> "times", times |-> pt, startTime |-> now,
               lastExecution |-> Null, timerId |-> 0, nextExecution |-> 0])
    IN
    /\ nextScheduleId <= MaxSchedules
    /\ nextScheduleId' = nextScheduleId + 1
    /\ IF NextThrows(pt, now, DayLen)
       THEN /\ activeSchedules' = registered
            /\ registerResult' = [id |-> sid, threw |-> TRUE]
            /\ UNCHANGED <<timers, nextTimerId, statusUpdateInterval, logCounter>>
       ELSE /\ timers' = timers \cup {TimeoutTimer(nextTimerId, sid, pt, now)}
            /\ nextTimerId' = nextTimerId + 1
            /\ activeSchedules' = NoteNext(registered, sid, nextTimerId, pt, now)
            /\ statusUpdateInterval' = HeartbeatAfterStart(statusUpdateInterval, now)
            /\ logCounter' = LogCounterAfterStart(statusUpdateInterval, logCounter)
            /\ registerResult' = [id |-> sid, threw |-> FALSE]
    /\ UNCHANGED <<now, fired, nextExecId, inflight, stoppedIds, stopResult>>

ScheduleTimes(times) ==
    /\ ScheduleTimesEffect(times)
    /\ UNCHANGED <<storeVars, readVars, tradeVars, rangeVars>>

\* the interval timer tm fires: wrappedFunction starts, the timer stays armed
IntervalFireEffect(tm, style) ==
    LET e == [eid |-> nextExecId, sid |-> tm.sid, start |-> now, chain |-> FALSE,
              times |-> <<>>]
    IN
    /\ tm \in timers /\ tm.kind = "interval" /\ tm.due = now
    /\ fired' = Started(tm.sid, "timer")
    /\ nextExecId' = nextExecId + 1
    /\ timers' = (timers \ {tm}) \cup {[tm EXCEPT !.due = tm.due + tm.period]}
    /\ IF style = "async"
       THEN /\ inflight' = inflight \cup {e}
            /\ UNCHANGED activeSchedules
       ELSE /\ activeSchedules' = StoreLastExecution(activeSchedules, e, "reject", now)
            /\ UNCHANGED inflight
    /\ UNCHANGED <<now, nextScheduleId, nextTimerId, statusUpdateInterval, logCounter,
                   stoppedIds, stopResult, registerResult>>

IntervalFire(tm, style) ==
    /\ IntervalFireEffect(tm, style)
    /\ UNCHANGED <<storeVars, readVars, tradeVars, rangeVars>>

\* the timeout tm of a daily-time schedule fires:
\* await wrappedFunction(); scheduleNext()
TimeoutFireEffect(tm, style) ==
    LET e == [eid |-> nextExecId, sid |-> tm.sid, start |-> now, chain |-> TRUE,
              times |-> tm.times]
        recorded == StoreLastExecution(activeSchedules, e, "reject", now)
    IN
    /\ tm \in timers /\ tm.kind = "timeout" /\ tm.due = now
    /\ fired' = Started(tm.sid, "timer")
    /\ nextExecId' = nextExecId + 1
    /\ IF style = "async"
       THEN /\ inflight' = inflight \cup {e}
            /\ timers' = timers \ {tm}
            /\ UNCHANGED <<activeSchedules, nextTimerId>>
       ELSE /\ UNCHANGED inflight
            /\ IF ArmNext(recorded, tm.sid)
               THEN /\ timers' = (timers \ {tm}) \cup
                                    {TimeoutTimer(nextTimerId, tm.sid, tm.times, now)}
                    /\ nextTimerId' = nextTimerId + 1
                    /\ activeSchedules' = NoteNext(recorded, tm.sid, nextTimerId, tm.times, now)
               ELSE /\ timers' = timers \ {tm}
                    /\ activeSchedules' = recorded
                    /\ UNCHANGED nextTimerId
    /\ UNCHANGED <<now, nextScheduleId, statusUpdateInterval, logCounter,
                   stoppedIds, stopResult, registerResult>>

\* a timeout callback that arms the next timeout before it awaits the wrapper
TimeoutFireArmingFirst(tm, style) ==
    LET e == [eid |-> nextExecId, sid |-> tm.sid, start |-> now, chain |-> TRUE,
              times |-> tm.times]
    IN
    /\ tm \in timers /\ tm.kind = "timeout" /\ tm.due = now
    /\ fired' = Started(tm.sid, "timer")
    /\ nextExecId' = nextExecId + 1
    /\ timers' = (timers \ {tm}) \cup {TimeoutTimer(nextTimerId, tm.sid, tm.times, now)}
    /\ nextTimerId' = nextTimerId + 1
    /\ IF style = "async"
       THEN /\ inflight' = inflight \cup {e}
            /\ activeSchedules' = NoteNext(activeSchedules, tm.sid, nextTimerId, tm.times, now)
       ELSE /\ UNCHANGED inflight
            /\ activeSchedules' =
                  NoteNext(StoreLastExecution(activeSchedules, e, "reject", now),
                           tm.sid, nextTimerId, tm.times, now)
    /\ UNCHANGED <<now, nextScheduleId, statusUpdateInterval, logCounter,
                   stoppedIds, stopResult, registerResult>>
    /\ UNCHANGED <<storeVars, readVars, tradeVars, rangeVars>>

TimeoutFire(tm, style) ==
    /\ TimeoutFireEffect(tm, style)
    /\ UNCHANGED <<storeVars, readVars, tradeVars, rangeVars>>

\* the promise of execution e settles: the rest of wrappedFunction runs and,
\* for a daily-time fire, scheduleNext after it
CompleteEffect(e, outcome) ==
    LET recorded == StoreLastExecution(activeSchedules, e, outcome, now)
    IN
    /\ e \in inflight
    /\ inflight' = inflight \ {e}
    /\ IF e.chain /\ ArmNext(recorded, e.sid)
       THEN /\ timers' = timers \cup {TimeoutTimer(nextTimerId, e.sid, e.times, now)}
            /\ nextTimerId' = nextTimerId + 1
            /\ activeSchedules' = NoteNext(recorded, e.sid, nextTimerId, e.times, now)
       ELSE /\ activeSchedules' = recorded
            /\ UNCHANGED <<timers, nextTimerId>>
    /\ UNCHANGED <<now, nextScheduleId, statusUpdateInterval, logCounter, nextExecId,
                   fired, stoppedIds, stopResult, registerResult>>

Complete(e, outcome) ==
    /\ CompleteEffect(e, outcome)
    /\ UNCHANGED <<storeVars, readVars, tradeVars, rangeVars>>

\* a stopStatusUpdates that leaves the timer as it is
HeartbeatAfterStopRunning(hb) == hb
\* stopStatusUpdates
HeartbeatAfterStop(hb) == NoTimer

\* stopSchedule(id) on the Map m, the timers ts and the heartbeat hb:
\* clearInterval / clearTimeout of the noted timer, delete, and the heartbeat
\* stops when the Map is empty.  For an id not in the Map nothing changes.
StopTimers(m, ts, id) ==
    IF id \in DOMAIN m THEN {tm \in ts : tm.id # m[id].timerId} ELSE ts
StopMap(m, id) == IF id \in DOMAIN m THEN MapDelete(m, id) ELSE m
StopHeartbeat(m, hb, id) ==
    IF id \in DOMAIN m /\ DOMAIN MapDelete(m, id) = {} THEN HeartbeatAfterStop(hb) ELSE hb

\* stopSchedule(scheduleId)
StopSchedule(id) ==
    /\ timers' = StopTimers(activeSchedules, timers, id)
    /\ activeSchedules' = StopMap(activeSchedules, id)
    /\ statusUpdateInterval' = StopHeartbeat(activeSchedules, statusUpdateInterval, id)
    /\ stopResult' = [stopped |-> id \in DOMAIN activeSchedules]
    /\ stoppedIds' = IF id \in DOMAIN activeSchedules THEN stoppedIds \cup {id} ELSE stoppedIds
    /\ UNCHANGED <<now, nextScheduleId, nextTimerId, logCounter, inflight, nextExecId,
                   fired, registerResult, storeVars, readVars, tradeVars, rangeVars>>

\* a stopAllSchedules that also clears the monitoring interval of the Range
\* driver
StopAllSchedulesAndLoops ==
    /\ timers' = {tm \in timers :
                    \A id \in DOMAIN activeSchedules : tm.id # activeSchedules[id].timerId}
    /\ activeSchedules' = <<>>
    /\ statusUpdateInterval' = NoTimer
    /\ stopResult' = [count |-> Cardinality(DOMAIN activeSchedules)]
    /\ stoppedIds' = stoppedIds \cup DOMAIN activeSchedules
    /\ rangeLoop' = NoTimer
    /\ UNCHANGED <<now, nextScheduleId, nextTimerId, logCounter, inflight, nextExecId,
                   fired, registerResult, storeVars, readVars, tradeVars, probe, priceWait,
                   cacheVars, sideVars, rangeCall, rangeTicks, dcaCalls>>

\* stopAllSchedules(): stopSchedule for every key, then stopStatusUpdates
StopAllSchedules ==
    /\ timers' = {tm \in timers :
                    \A id \in DOMAIN activeSchedules : tm.id # activeSchedules[id].timerId}
    /\ activeSchedules' = <<>>
    /\ statusUpdateInterval' = HeartbeatAfterStop(statusUpdateInterval)
    /\ stopResult' = [count |-> Cardinality(DOMAIN activeSchedules)]
    /\ stoppedIds' = stoppedIds \cup DOMAIN activeSchedules
    /\ UNCHANGED <<now, nextScheduleId, nextTimerId, logCounter, inflight, nextExecId,
                   fired, registerResult, storeVars, readVars, tradeVars, rangeVars>>

\* a heartbeat that logs one tick late
ShouldLogLate(counted) == counted > LOG_EVERY
\* const shouldLog = logCounter >= 12
ShouldLog(counted) == counted >= LOG_EVERY

\* the heartbeat timer fires: every LOG_EVERY-th tick publishes with a log
\* line, every tick publishes the countdown of the first schedule
HeartbeatFire ==
    LET counted == logCounter + 1
        shouldLog == ShouldLog(counted)
        L == UpdateStatusLog([logs |-> logs, seq |-> logSeq],
                             "waiting_next_execution", "null", shouldLog)
    IN
    /\ statusUpdateInterval.armed
    /\ statusUpdateInterval.due = now
    /\ statusUpdateInterval' = [statusUpdateInterval EXCEPT !.due = now + HEARTBEAT_S,
                                                            !.ticks = @ + 1]
    /\ IF DOMAIN activeSchedules # {}
       THEN /\ logCounter' = IF shouldLog THEN 0 ELSE counted
            /\ currentStatus' = UpdateStatusOver(currentStatus, "waiting_next_execution",
                                   "null", HeartbeatDetails(activeSchedules, now), Null, now)
            /\ logs' = L.logs
            /\ logSeq' = L.seq
       ELSE UNCHANGED <<logCounter, storeVars>>
    /\ UNCHANGED <<now, activeSchedules, nextScheduleId, timers, nextTimerId, inflight,
                   nextExecId, fired, stoppedIds, stopResult, registerResult, readVars, tradeVars, rangeVars>>

\* a second passes; every timer that is due fires first, and no callback
\* stays in flight longer than MaxDuration
Tick ==
    /\ now < MaxTime
    /\ \A tm \in timers : tm.due > now
    /\ statusUpdateInterval.armed => statusUpdateInterval.due > now
    /\ \A e \in inflight : now - e.start < MaxDuration
    /\ now' = now + 1
    /\ UNCHANGED <<activeSchedules, nextScheduleId, timers, nextTimerId,
                   statusUpdateInterval, logCounter, inflight, nextExecId, fired,
                   stoppedIds, stopResult, registerResult, storeVars, readVars, tradeVars, rangeVars>>

\* the intervals an interval schedule is registered with, in seconds
Intervals == {1, 2}

\* the time lists a daily-time schedule is registered with
TimeLists ==
    {<<a>> : a \in 0..(DayLen - 1)} \cup
    {<<a, b>> : a \in {DayLen - 1}, b \in {1}} \cup
    {<<>>, <<NaN>>, <<1, NaN>>}

SchedInit ==
    /\ StoreIdle
    /\ ReadIdle
    /\ SchedIdle
    /\ TradeIdle
    /\ RangeIdle

SchedNext ==
    \/ \E i \in Intervals, imm \in BOOLEAN, style \in CallStyles :
          ScheduleInterval(i, imm, style)
    \/ \E ts \in TimeLists : ScheduleTimes(ts)
    \/ \E tm \in timers, style \in CallStyles : IntervalFire(tm, style)
    \/ \E tm \in timers, style \in CallStyles : TimeoutFire(tm, style)
    \/ \E e \in inflight, outcome \in Outcomes : Complete(e, outcome)
    \/ \E id \in SchedIds : StopSchedule(id)
    \/ StopAllSchedules
    \/ HeartbeatFire
    \/ Tick

SpecSched == SchedInit /\ [][SchedNext]_vars

(***************************************************************************)
(* Claims settled under SpecSched.                                         *)
(***************************************************************************)
\* C1: after stop(scheduleId) has returned true the callback of that
\* schedule is never started again, for interval and daily-time schedules,
\* whether or not a fire of the schedule is in flight when stop is called.
C1_NoStartAfterStop ==
    [][\A s \in stoppedIds : fired'[s] = fired[s]]_vars

\* the starts of a schedule's callback made by its timer
TimerStarts(s) == SelectSeq(fired[s], LAMBDA f : f.by = "timer")
ImmediateStarts(s) == SelectSeq(fired[s], LAMBDA f : f.by = "immediate")

\* C2: an active interval schedule registered at t0 has fired at
\* t0 + k*intervalMs for every k >= 1 reached so far and at no other time by
\* its timer; with executeImmediately it fired once more, at t0 and first of
\* all, and without it there is no fire before t0 + intervalMs.
C2_IntervalFires ==
    \A s \in DOMAIN activeSchedules :
        activeSchedules[s].type = "interval" =>
            LET t0 == activeSchedules[s].startTime
                I == activeSchedules[s].intervalMs
                ts == TimerStarts(s)
                im == ImmediateStarts(s)
            IN  /\ \A k \in 1..Len(ts) : ts[k].at = t0 + k * I
                /\ \A k \in 1..MaxTime : t0 + k * I < now => k <= Len(ts)
                /\ IF activeSchedules[s].executeImmediately
                   THEN /\ Len(im) = 1
                        /\ fired[s][1] = [at |-> t0, by |-> "immediate"]
                   ELSE /\ Len(im) = 0
                        /\ \A j \in 1..Len(fired[s]) : fired[s][j].at >= t0 + I

\* C2 witness: a schedule with executeImmediately has fired at registration
\* and twice by its timer.
C2_Witness ==
    \E s \in DOMAIN activeSchedules :
        /\ activeSchedules[s].type = "interval"
        /\ activeSchedules[s].executeImmediately
        /\ Len(TimerStarts(s)) >= 2
        /\ Len(fired[s]) = Len(TimerStarts(s)) + 1

MaxPolls == 4
\* waitForBalance: setTimeout(resolve, 60000), in seconds
BALANCE_SLEEP_S == 60
\* waitForBalance(walletAddress, minimumSOL = 0.005)
DEFAULT_MINIMUM_SOL == 50
\* baselineFunction: waitForBalance(wallet.walletAddress, 0.001)
CYCLE_MINIMUM_SOL == 10

World ==
    [logs |-> logs, seq |-> logSeq, status |-> currentStatus, now |-> now,
     balanceWait |-> balanceWait, cycle |-> cycle,
     swapCall |-> swapCall, transferCall |-> transferCall]

Becomes(W) ==
    /\ logs' = W.logs
    /\ logSeq' = W.seq
    /\ currentStatus' = W.status
    /\ balanceWait' = W.balanceWait
    /\ cycle' = W.cycle
    /\ swapCall' = W.swapCall
    /\ transferCall' = W.transferCall

\* updateStatus(stage, message, success, details): no schedule info, logged
Publish(W, stage, success) ==
    LET L == UpdateStatusLog([logs |-> W.logs, seq |-> W.seq], stage, success, TRUE)
    IN  [W EXCEPT !.logs = L.logs, !.seq = L.seq,
                  !.status = UpdateStatusOver(W.status, stage, success,
                                              [of |-> stage], Null, W.now)]

\* logger.log(message, level)
Say(W, message, level) ==
    LET L == LoggerLog([logs |-> W.logs, seq |-> W.seq], message, level)
    IN  [W EXCEPT !.logs = L.logs, !.seq = L.seq]

\* what a poll of getBalances can deliver: a throw, or the balances, with or
\* without an entry of symbol SOL
SolBalances == {9, 10, 50}
PollOutcomes ==
    {[threw |-> TRUE, hasSol |-> FALSE, sol |-> 0],
     [threw |-> FALSE, hasSol |-> FALSE, sol |-> 0]} \cup
    {[threw |-> FALSE, hasSol |-> TRUE, sol |-> b] : b \in SolBalances}

\* const currentBalance = solBalance ? solBalance.uiAmount : 0
CurrentBalance(o) == IF o.hasSol THEN o.sol ELSE 0

\* a gate that wants more than the minimum
GateSufficientStrict(currentBalance, minimumSOL) == currentBalance > minimumSOL

\* if (currentBalance >= minimumSOL)
GateSufficient(currentBalance, minimumSOL) == currentBalance >= minimumSOL

\* waitForBalance up to its first await: the status, then the first poll
WaitForBalanceEnter(W, minimumSOL) ==
    [Publish(W, "balance_check", "null") EXCEPT
        !.balanceWait = [pc |-> "polling", min |-> minimumSOL, polls |-> <<>>,
                         sleeps |-> <<>>, result |-> 0]]

\* baselineFunction after waitForBalance returned, up to await getBalances
CycleAfterGate(W) ==
    LET W1 == Publish(W, "trading_balance_check", "null")
        W2 == Say(W1, "Checking wallet balances for trading", "info")
    IN  [W2 EXCEPT !.cycle.pc = "balances"]

\* waitForBalance returns currentBalance to its caller
GateReturn(W, currentBalance) ==
    LET W1 == [W EXCEPT !.balanceWait.pc = "returned",
                        !.balanceWait.result = currentBalance]
    IN  IF W.cycle.pc = "gate" THEN CycleAfterGate(W1) ELSE W1

\* await new Promise(resolve => setTimeout(resolve, 60000))
GateSleep(W) ==
    [W EXCEPT !.balanceWait.pc = "sleeping",
              !.balanceWait.sleeps = Append(@, BALANCE_SLEEP_S)]

\* a gate that returns what its first successful poll shows, enough or not
GateAfterPollReturning(W, o) ==
    LET W0 == [W EXCEPT !.balanceWait.polls = Append(@, o)]
    IN  IF o.threw
        THEN GateSleep(Say(Publish(W0, "balance_error", "false"),
                           "Error checking balance", "error"))
        ELSE GateReturn(Say(Publish(Say(W0, "All balances:", "json"), "balance_ready", "true"),
                            "Wallet balance ready", "info"),
                        CurrentBalance(o))

\* one turn of the while (true) of waitForBalance, from the settling of
\* getBalances on
GateAfterPoll(W, o) ==
    LET W0 == [W EXCEPT !.balanceWait.polls = Append(@, o)]
    IN  IF o.threw
        THEN GateSleep(Say(Publish(W0, "balance_error", "false"),
                           "Error checking balance", "error"))
        ELSE LET W1 == Say(W0, "All balances:", "json")
             IN  IF GateSufficient(CurrentBalance(o), W.balanceWait.min)
                 THEN GateReturn(Say(Publish(W1, "balance_ready", "true"),
                                     "Wallet balance ready", "info"),
                                 CurrentBalance(o))
                 ELSE GateSleep(Say(Publish(W1, "balance_insufficient", "null"),
                                    "Insufficient balance", "info"))

NothingInProgress ==
    /\ balanceWait.pc = "idle"
    /\ cycle.pc = "idle"
    /\ swapCall.pc = "idle"
    /\ transferCall.pc = "idle"
    /\ rangeCall.pc = "idle"
    /\ dcaCalls = <<>>

\* a call of waitForBalance(walletAddress, minimumSOL)
WaitForBalance(minimumSOL) ==
    /\ NothingInProgress
    /\ Becomes(WaitForBalanceEnter(World, minimumSOL))
    /\ UNCHANGED <<readVars, schedVars, rangeVars>>

\* getBalances settles
GatePoll(o) ==
    /\ balanceWait.pc = "polling"
    /\ Len(balanceWait.polls) < MaxPolls
    /\ Becomes(GateAfterPoll(World, o))
    /\ UNCHANGED <<readVars, schedVars, rangeVars>>

\* the 60 seconds of the sleep are over: the next poll goes out
GateWake ==
    /\ balanceWait.pc = "sleeping"
    /\ now' = now + BALANCE_SLEEP_S
    /\ balanceWait' = [balanceWait EXCEPT !.pc = "polling"]
    /\ UNCHANGED <<storeVars, readVars, timerVars, cycle, swapCall, transferCall, rangeVars>>

GateMinimums == {CYCLE_MINIMUM_SOL, DEFAULT_MINIMUM_SOL}

GateInit ==
    /\ StoreIdle
    /\ ReadIdle
    /\ SchedIdle
    /\ TradeIdle
    /\ RangeIdle

GateNext ==
    \/ \E m \in GateMinimums : WaitForBalance(m)
    \/ \E o \in PollOutcomes : GatePoll(o)
    \/ GateWake

SpecGate == GateInit /\ [][GateNext]_vars

(***************************************************************************)
(* Claims settled under SpecGate.                                          *)
(***************************************************************************)
\* a poll that lets waitForBalance return
PollSuffices(o, minimumSOL) == ~o.threw /\ CurrentBalance(o) >= minimumSOL

\* C4: waitForBalance returns only after a poll whose SOL balance is at least
\* the minimum, and returns that balance; every poll that threw or reported
\* less is followed by a sleep of 60 seconds and another poll, so that k
\* failing polls and a sufficient one make k+1 polls and k sleeps.
C4_GateReturnsWhenFunded ==
    LET g == balanceWait
        n == Len(g.polls)
    IN  /\ g.pc = "returned" =>
              /\ n >= 1
              /\ PollSuffices(g.polls[n], g.min)
              /\ g.result = CurrentBalance(g.polls[n])
              /\ Len(g.sleeps) = n - 1
        /\ \A i \in 1..n :
              IF PollSuffices(g.polls[i], g.min)
              THEN i = n /\ g.pc = "returned"
              ELSE /\ Len(g.sleeps) >= i
                   /\ g.sleeps[i] = BALANCE_SLEEP_S
                   /\ g.pc \in {"sleeping", "polling"} \/ i < n
        /\ g.pc \in {"sleeping", "polling"} => Len(g.sleeps) = n
        /\ g.pc = "idle" => n = 0

\* three failing polls (one of them a throw), then a sufficient fourth
C4_Witness ==
    /\ balanceWait.pc = "returned"
    /\ Len(balanceWait.polls) = 4
    /\ Len(balanceWait.sleeps) = 3
    /\ balanceWait.polls[2].threw
    /\ balanceWait.result = balanceWait.min

(***************************************************************************)
(* The swap pipeline (trading.js, swap).  It logs to the console only, so  *)
(* it leaves the Status Store alone.                                       *)
(***************************************************************************)
\* the largest maxRetries a swap is called with
MaxRetries == 3

\* the words the catch block of swap looks for, as an upstream error text may
\* contain them
UpstreamWords ==
    {{}, {"insufficient", "slippage"}, {"slippage", "timeout"},
     {"timeout", "route"}, {"route"}}
UpstreamMessages == {[text |-> "upstream", words |-> w] : w \in UpstreamWords}

\* `Token not found: ...`, and what getJupiterTokens throws or its null makes
TokenNotFound == [text |-> "Token not found", words |-> {}]
TokenListFailed == [text |-> "Unable to fetch token list", words |-> {}]
\* 'No valid route found for this swap'
NoValidRoute == [text |-> "No valid route found for this swap", words |-> {"route"}]
\* 'No swap transaction received from Jupiter'
NoSwapTransaction == [text |-> "No swap transaction received", words |-> {}]
\* quoteData.outAmount of an undefined quoteData: a TypeError
QuoteUndefined == [text |-> "Cannot read properties of undefined", words |-> {}]
\* `Quote API error ${status}: ${errorText}`, `Swap API error ...`
ApiError(m) == [text |-> "API error", words |-> m.words]

\* the answers to a quote request and to a swap-transaction request
QuoteAnswers ==
    {[kind |-> k, message |-> NoMessage] : k \in {"ok", "zeroOut", "noOut"}} \cup
    {[kind |-> k, message |-> m] : k \in {"httpError", "fetchThrew"}, m \in UpstreamMessages}
SwapAnswers ==
    {[kind |-> k, message |-> NoMessage] : k \in {"ok", "noTransaction"}} \cup
    {[kind |-> k, message |-> m] : k \in {"httpError", "fetchThrew"}, m \in UpstreamMessages}

\* the error a failed quote attempt throws inside the loop
QuoteError(a) ==
    IF a.kind = "httpError" THEN ApiError(a.message)
    ELSE IF a.kind = "fetchThrew" THEN a.message
    ELSE NoValidRoute

\* the error a failed swap-transaction attempt throws inside the loop
SwapError(a) ==
    IF a.kind = "httpError" THEN ApiError(a.message)
    ELSE IF a.kind = "fetchThrew" THEN a.message
    ELSE NoSwapTransaction

\* a catch block that looks for "route" before "timeout"
ErrorCategoryRouteFirst(words) ==
    IF "insufficient" \in words THEN "insufficient_funds"
    ELSE IF "slippage" \in words THEN "slippage_exceeded"
    ELSE IF "route" \in words THEN "no_route"
    ELSE IF "timeout" \in words THEN "timeout"
    ELSE "unknown"

\* the catch block of swap: the first word found decides
ErrorCategory(words) ==
    IF "insufficient" \in words THEN "insufficient_funds"
    ELSE IF "slippage" \in words THEN "slippage_exceeded"
    ELSE IF "timeout" \in words THEN "timeout"
    ELSE IF "route" \in words THEN "no_route"
    ELSE "unknown"

\* a backoff that does not grow
BackoffFlat(attempt) == 1000

\* setTimeout(resolve, 1000 * attempt), in milliseconds
Backoff(attempt) == 1000 * attempt

\* baselineFunction's return after swap: { ...swapResult, executionType }
CycleReturn(W, result) ==
    [W EXCEPT !.cycle.pc = "returned",
              !.cycle.result = [result EXCEPT !.executionType = "immediate"]]

\* baselineFunction from the settling of swap on
CycleAfterSwap(W, swapResult) ==
    IF swapResult.success = "true"
    THEN LET W1 == Say(Publish(W, "trading_success", "true"),
                       "Trading execution completed successfully", "info")
             W2 == IF swapResult.signature # "absent"
                   THEN Say(W1, "Transaction", "info") ELSE W1
         IN  CycleReturn(W2, swapResult)
    ELSE CycleReturn(Say(Publish(W, "trading_error", "false"),
                         "Trading execution failed", "info"), swapResult)

\* swap settles with result, and its caller goes on
SwapReturn(W, result) ==
    LET W1 == [W EXCEPT !.swapCall.pc = "done", !.swapCall.result = result]
    IN  IF W.cycle.pc = "swap" THEN CycleAfterSwap(W1, result) ELSE W1

\* the catch block of swap
SwapFail(W, error) ==
    SwapReturn(W, [NoResult EXCEPT !.success = "false", !.error = error,
                                   !.errorCategory = ErrorCategory(error.words)])

\* return { success: true, signature: hash, ... }
SwapSucceed(W) ==
    SwapReturn(W, [NoResult EXCEPT !.success = "true", !.signature = W.swapCall.hash])

\* a confirmation step that takes an on-chain error for a failure
SwapAfterConfirmChecking(W, c) ==
    LET W1 == [W EXCEPT !.swapCall.confirmation = c]
    IN  IF c = "err" THEN SwapFail(W1, [text |-> "Transaction failed", words |-> {}])
        ELSE SwapSucceed(W1)

\* swap from the settling of confirmTransaction on: c is "ok", "err" (an
\* on-chain error) or "threw" (the call threw or timed out); all three only log
SwapAfterConfirm(W, c) ==
    SwapSucceed([W EXCEPT !.swapCall.confirmation = c])

\* a swap that signs and sends once more when signAndSendTransaction threw
SwapAfterSignRetrying(W, r) ==
    IF r.threw
    THEN IF W.swapCall.signRequests < 2
         THEN [W EXCEPT !.swapCall.pc = "sign", !.swapCall.signRequests = @ + 1]
         ELSE SwapFail(W, r.message)
    ELSE LET W1 == [W EXCEPT !.swapCall.hash = r.hash]
         IN  IF W.swapCall.confirmTransaction
             THEN [W1 EXCEPT !.swapCall.pc = "confirm"]
             ELSE SwapSucceed(W1)

\* swap from the settling of signAndSendTransaction on
SwapAfterSign(W, r) ==
    IF r.threw THEN SwapFail(W, r.message)
    ELSE LET W1 == [W EXCEPT !.swapCall.hash = r.hash]
         IN  IF W.swapCall.confirmTransaction
             THEN [W1 EXCEPT !.swapCall.pc = "confirm"]
             ELSE SwapSucceed(W1)

\* the body of the swap-transaction loop up to its fetch
SwapRequest(W, attempt) ==
    [W EXCEPT !.swapCall.pc = "swapTx", !.swapCall.attempt = attempt,
              !.swapCall.swapRequests = @ + 1]

\* the swap-transaction loop from the settling of its fetch on
SwapAfterSwapTx(W, a) ==
    LET W1 == [W EXCEPT !.swapCall.swapAnswers = Append(@, a.kind)]
        attempt == W.swapCall.attempt
    IN  IF a.kind = "ok"
        THEN [W1 EXCEPT !.swapCall.pc = "sign", !.swapCall.signRequests = @ + 1]
        ELSE IF attempt = W.swapCall.maxRetries
        THEN SwapFail(W1, SwapError(a))
        ELSE [W1 EXCEPT !.swapCall.pc = "swapWait",
                        !.swapCall.swapWaits = Append(@, Backoff(attempt))]

\* the body of the quote loop up to its fetch
QuoteRequest(W, attempt) ==
    [W EXCEPT !.swapCall.pc = "quote", !.swapCall.attempt = attempt,
              !.swapCall.quoteRequests = @ + 1]

\* the quote loop from the settling of its fetch on
SwapAfterQuote(W, a) ==
    LET W1 == [W EXCEPT !.swapCall.quoteAnswers = Append(@, a.kind)]
        attempt == W.swapCall.attempt
    IN  IF a.kind = "ok"
        THEN SwapRequest(W1, 1)
        ELSE IF attempt = W.swapCall.maxRetries
        THEN SwapFail(W1, QuoteError(a))
        ELSE [W1 EXCEPT !.swapCall.pc = "quoteWait",
                        !.swapCall.quoteWaits = Append(@, Backoff(attempt))]

\* swap from the settling of getJupiterTokens on: t is "found", "notFound"
\* (one of the two symbols is not listed) or "threw"
SwapAfterTokens(W, t) ==
    IF t = "notFound" THEN SwapFail(W, TokenNotFound)
    ELSE IF t = "threw" THEN SwapFail(W, TokenListFailed)
    ELSE IF 1 <= W.swapCall.maxRetries THEN QuoteRequest(W, 1)
    ELSE SwapFail(W, QuoteUndefined)

\* swap up to await getJupiterTokens()
SwapEnter(W, maxRetries, confirmTransaction) ==
    [W EXCEPT !.swapCall = [NoSwap EXCEPT !.pc = "tokens", !.maxRetries = maxRetries,
                                          !.confirmTransaction = confirmTransaction]]

(***************************************************************************)
(* The execution cycle: baselineFunction without schedule options.         *)
(***************************************************************************)
\* const minRequiredSOL = 0.0021
MIN_REQUIRED_SOL == 21
\* swapOptions of the cycle: maxRetries: 2
CYCLE_MAX_RETRIES == 2

\* a failed result of the cycle itself: success, error, executionType
CycleFailure(text) ==
    [NoResult EXCEPT !.success = "false", !.error = [text |-> text, words |-> {}]]

\* a throw inside the try block: the catch block reads `wallet`, which is a
\* const of the try block and not in scope there, so the catch block throws
\* in its turn before it publishes anything and the promise is rejected
CycleThrow(W) == [W EXCEPT !.cycle.pc = "rejected"]

\* from the settling of checkTokenAccountExists on: the reserve check, the swap
CycleAfterAccountCheck(W, accountExists) ==
    LET c  == W.cycle
        W1 == Say(W, IF accountExists THEN "account ready" ELSE "account will be created",
                  "info")
    IN  IF c.fromToken = "SOL" /\ c.uiAmount < MIN_REQUIRED_SOL
        THEN LET W2 == Publish(W1, "trading_error", "false")
                 W3 == Say(Say(Say(Say(W2, "Not enough SOL for swap fees", "info"),
                                   "Current balance", "info"),
                               "Minimum needed", "info"),
                           "Please add SOL to continue", "info")
             IN  CycleReturn(W3, CycleFailure("Insufficient SOL for Jupiter swap operations"))
        ELSE LET W2 == Publish(W1, "swapping", "null")
                 W3 == Say(Say(W2, "Executing swap", "info"),
                           "Using 1.5% slippage tolerance", "info")
             IN  SwapEnter([W3 EXCEPT !.cycle.pc = "swap"], CYCLE_MAX_RETRIES, TRUE)

\* from the settling of getTokenMintAddress(toToken) on
CycleAfterTokenLookup(W, found) ==
    IF ~found
    THEN CycleReturn(Say(Publish(W, "trading_error", "false"),
                         "Could not find token", "info"),
                     CycleFailure("Failed to get mint address"))
    ELSE LET W1 == Say(W, "token found", "info")
             W2 == Say(Publish(W1, "account_check", "null"),
                       "Checking if you have an account", "info")
         IN  [W2 EXCEPT !.cycle.pc = "accountCheck"]

\* a cycle that goes on to the swap whatever the wallet holds
CycleAfterBalancesUnchecked(W, b) ==
    IF b.threw THEN CycleThrow(W)
    ELSE LET W0 == [W EXCEPT !.cycle.hasToken = b.hasToken, !.cycle.uiAmount = b.uiAmount]
             W1 == Say(W0, "Found tokens in wallet", "info")
             W2 == Say(W1, "Sufficient balance", "info")
             W3 == Say(Publish(W2, "token_lookup", "null"),
                       "Looking up token address", "info")
         IN  [W3 EXCEPT !.cycle.pc = "tokenLookup"]

\* from the settling of getBalances on: b is a throw, or whether the wallet
\* lists fromToken and how much of it
CycleAfterBalances(W, b) ==
    IF b.threw THEN CycleThrow(W)
    ELSE LET W0 == [W EXCEPT !.cycle.hasToken = b.hasToken, !.cycle.uiAmount = b.uiAmount]
             W1 == Say(W0, "Found tokens in wallet", "info")
         IN  IF ~b.hasToken
             THEN CycleReturn(Say(Publish(W1, "trading_error", "false"),
                                  "No token found in wallet", "info"),
                              CycleFailure("Wallet does not have the token"))
             ELSE IF b.uiAmount < W.cycle.amount
             THEN CycleReturn(Say(Publish(W1, "trading_error", "false"),
                                  "Insufficient balance", "info"),
                              CycleFailure("Insufficient balance"))
             ELSE LET W2 == Say(W1, "Sufficient balance", "info")
                      W3 == Say(Publish(W2, "token_lookup", "null"),
                                "Looking up token address", "info")
                  IN  [W3 EXCEPT !.cycle.pc = "tokenLookup"]

\* from the settling of getOrCreateWallet on, up to the first poll of the gate
CycleAfterWallet(W, threw) ==
    IF threw THEN CycleThrow(W)
    ELSE LET W1 == Say(Publish(W, "wallet_ready", "true"), "Wallet initialized", "info")
             W2 == Say(Publish(W1, "immediate_execution", "null"),
                       "Executing trading immediately", "info")
             W3 == Publish(W2, "execution_start", "null")
         IN  WaitForBalanceEnter([W3 EXCEPT !.cycle.pc = "gate"], CYCLE_MINIMUM_SOL)

\* baselineFunction(ownerAddress, fromToken, toToken, amount) up to its first await
CycleEnter(W, fromToken, amount) ==
    [Publish(Publish(W, "initializing", "null"), "wallet_init", "null") EXCEPT
        !.cycle = [NoCycle EXCEPT !.pc = "wallet", !.fromToken = fromToken,
                                  !.amount = amount]]

(***************************************************************************)
(* The transfer pipeline (trading.js, transfer).                           *)
(***************************************************************************)
\* the catch block of transfer: success, error, timestamp
TransferFail(W, error) ==
    [W EXCEPT !.transferCall.pc = "done",
              !.transferCall.result = [NoResult EXCEPT !.success = "false", !.error = error]]

\* a transfer that only logs what the confirmation reports, as swap does
TransferAfterConfirmBestEffort(W, c) ==
    [W EXCEPT !.transferCall.confirmation = c, !.transferCall.pc = "done",
              !.transferCall.result =
                 [NoResult EXCEPT !.success = "true", !.signature = W.transferCall.hash]]

\* from the settling of confirmTransaction on: an on-chain error is returned
\* as a failure, a confirmation that threw is logged only
TransferAfterConfirm(W, c) ==
    LET W1 == [W EXCEPT !.transferCall.confirmation = c, !.transferCall.pc = "done"]
    IN  IF c = "err"
        THEN [W1 EXCEPT !.transferCall.result =
                 [NoResult EXCEPT !.success = "false",
                                  !.error = [text |-> "Transaction failed", words |-> {}]]]
        ELSE [W1 EXCEPT !.transferCall.result =
                 [NoResult EXCEPT !.success = "true", !.signature = W.transferCall.hash]]

\* from the settling of signAndSendTransaction on
TransferAfterSign(W, r) ==
    IF r.threw THEN TransferFail(W, r.message)
    ELSE [W EXCEPT !.transferCall.hash = r.hash, !.transferCall.pc = "confirm"]

\* the transaction is built and handed to signAndSendTransaction
TransferSign(W) ==
    [W EXCEPT !.transferCall.pc = "sign", !.transferCall.signRequests = @ + 1]

\* the SPL branch from getTokenMintAddress to the transfer instruction: p is
\* "ok", "notFound" (the token is not listed) or "threw"
TransferAfterPrepare(W, p) ==
    IF p = "ok" THEN TransferSign(W)
    ELSE IF p = "notFound" THEN TransferFail(W, TokenNotFound)
    ELSE TransferFail(W, [text |-> "upstream", words |-> {}])

\* from the settling of getLatestBlockhash on
TransferAfterBlockhash(W, threw) ==
    IF threw THEN TransferFail(W, [text |-> "upstream", words |-> {}])
    ELSE IF W.transferCall.token = "SOL" THEN TransferSign(W)
    ELSE [W EXCEPT !.transferCall.pc = "prepare"]

\* transfer up to await getLatestBlockhash(); new PublicKey throws on an
\* address that is not one
TransferEnter(W, token, validAddresses) ==
    LET W1 == [W EXCEPT !.transferCall = [NoTransfer EXCEPT !.token = token]]
    IN  IF validAddresses THEN [W1 EXCEPT !.transferCall.pc = "blockhash"]
        ELSE TransferFail(W1, [text |-> "Invalid public key input", words |-> {}])

(***************************************************************************)
(* SpecTrade: one execution cycle, one direct swap or one transfer, against*)
(* upstream services that answer as they please.                           *)
(***************************************************************************)
FromTokens == {"SOL", "USDC"}
Amounts == {10, 30}

\* what the cycle's own getBalances can deliver about fromToken
BalanceReads ==
    {[threw |-> TRUE, hasToken |-> FALSE, uiAmount |-> 0],
     [threw |-> FALSE, hasToken |-> FALSE, uiAmount |-> 0]} \cup
    {[threw |-> FALSE, hasToken |-> TRUE, uiAmount |-> b] : b \in {0, 10, 21, 30}}

\* what signAndSendTransaction can deliver
SignResults ==
    {[threw |-> FALSE, hash |-> "hash1", message |-> NoMessage]} \cup
    {[threw |-> TRUE, hash |-> "absent", message |-> m] : m \in UpstreamMessages}

Confirmations == {"ok", "err", "threw"}

BaselineFunction(fromToken, amount) ==
    /\ NothingInProgress
    /\ Becomes(CycleEnter(World, fromToken, amount))
    /\ UNCHANGED <<readVars, schedVars, rangeVars>>

CycleWallet(threw) ==
    /\ cycle.pc = "wallet"
    /\ Becomes(CycleAfterWallet(World, threw))
    /\ UNCHANGED <<readVars, schedVars, rangeVars>>

\* getBalances of wallet.js always lists SOL
CycleBalances(b) ==
    /\ cycle.pc = "balances"
    /\ cycle.fromToken = "SOL" => b.threw \/ b.hasToken
    /\ Becomes(CycleAfterBalances(World, b))
    /\ UNCHANGED <<readVars, schedVars, rangeVars>>

CycleTokenLookup(found) ==
    /\ cycle.pc = "tokenLookup"
    /\ Becomes(CycleAfterTokenLookup(World, found))
    /\ UNCHANGED <<readVars, schedVars, rangeVars>>

CycleAccountCheck(accountExists) ==
    /\ cycle.pc = "accountCheck"
    /\ Becomes(CycleAfterAccountCheck(World, accountExists))
    /\ UNCHANGED <<readVars, schedVars, rangeVars>>

\* a direct call of swap(walletId, from, to, amount, walletAddress, options)
Swap(maxRetries, confirmTransaction) ==
    /\ NothingInProgress
    /\ Becomes(SwapEnter(World, maxRetries, confirmTransaction))
    /\ UNCHANGED <<readVars, schedVars, rangeVars>>

SwapTokens(t) ==
    /\ swapCall.pc = "tokens"
    /\ Becomes(SwapAfterTokens(World, t))
    /\ UNCHANGED <<readVars, schedVars, rangeVars>>

SwapQuote(a) ==
    /\ swapCall.pc = "quote"
    /\ Becomes(SwapAfterQuote(World, a))
    /\ UNCHANGED <<readVars, schedVars, rangeVars>>

\* the backoff is over: attempt++ and the next quote request
SwapQuoteWake ==
    /\ swapCall.pc = "quoteWait"
    /\ now' = now + swapCall.attempt
    /\ Becomes(QuoteRequest(World, swapCall.attempt + 1))
    /\ UNCHANGED <<readVars, timerVars, rangeVars>>

SwapTx(a) ==
    /\ swapCall.pc = "swapTx"
    /\ Becomes(SwapAfterSwapTx(World, a))
    /\ UNCHANGED <<readVars, schedVars, rangeVars>>

\* the backoff is over: attempt++ and the next swap-transaction request
SwapTxWake ==
    /\ swapCall.pc = "swapWait"
    /\ now' = now + swapCall.attempt
    /\ Becomes(SwapRequest(World, swapCall.attempt + 1))
    /\ UNCHANGED <<readVars, timerVars, rangeVars>>

SwapSign(r) ==
    /\ swapCall.pc = "sign"
    /\ Becomes(SwapAfterSign(World, r))
    /\ UNCHANGED <<readVars, schedVars, rangeVars>>

SwapConfirm(c) ==
    /\ swapCall.pc = "confirm"
    /\ Becomes(SwapAfterConfirm(World, c))
    /\ UNCHANGED <<readVars, schedVars, rangeVars>>

\* a call of transfer(walletId, from, to, tokenSymbol, amount)
Transfer(token, validAddresses) ==
    /\ NothingInProgress
    /\ Becomes(TransferEnter(World, token, validAddresses))
    /\ UNCHANGED <<readVars, schedVars, rangeVars>>

TransferBlockhash(threw) ==
    /\ transferCall.pc = "blockhash"
    /\ Becomes(TransferAfterBlockhash(World, threw))
    /\ UNCHANGED <<readVars, schedVars, rangeVars>>

TransferPrepare(p) ==
    /\ transferCall.pc = "prepare"
    /\ Becomes(TransferAfterPrepare(World, p))
    /\ UNCHANGED <<readVars, schedVars, rangeVars>>

TransferSigned(r) ==
    /\ transferCall.pc = "sign"
    /\ Becomes(TransferAfterSign(World, r))
    /\ UNCHANGED <<readVars, schedVars, rangeVars>>

TransferConfirm(c) ==
    /\ transferCall.pc = "confirm"
    /\ Becomes(TransferAfterConfirm(World, c))
    /\ UNCHANGED <<readVars, schedVars, rangeVars>>

TradeInit ==
    /\ StoreIdle
    /\ ReadIdle
    /\ SchedIdle
    /\ TradeIdle
    /\ RangeIdle

TradeNext ==
    \/ \E f \in FromTokens, a \in Amounts : BaselineFunction(f, a)
    \/ \E threw \in BOOLEAN : CycleWallet(threw)
    \/ \E o \in PollOutcomes : GatePoll(o)
    \/ GateWake
    \/ \E b \in BalanceReads : CycleBalances(b)
    \/ \E found \in BOOLEAN : CycleTokenLookup(found)
    \/ \E accountExists \in BOOLEAN : CycleAccountCheck(accountExists)
    \/ \E m \in 0..MaxRetries, c \in BOOLEAN : Swap(m, c)
    \/ \E t \in {"found", "notFound", "threw"} : SwapTokens(t)
    \/ \E a \in QuoteAnswers : SwapQuote(a)
    \/ SwapQuoteWake
    \/ \E a \in SwapAnswers : SwapTx(a)
    \/ SwapTxWake
    \/ \E r \in SignResults : SwapSign(r)
    \/ \E c \in Confirmations : SwapConfirm(c)
    \/ \E t \in FromTokens, v \in BOOLEAN : Transfer(t, v)
    \/ \E threw \in BOOLEAN : TransferBlockhash(threw)
    \/ \E p \in {"ok", "notFound", "threw"} : TransferPrepare(p)
    \/ \E r \in SignResults : TransferSigned(r)
    \/ \E c \in Confirmations : TransferConfirm(c)

SpecTrade == TradeInit /\ [][TradeNext]_vars

(***************************************************************************)
(* Claims settled under SpecTrade.                                         *)
(***************************************************************************)
\* the cycle has read the wallet and found less of fromToken than the amount
CycleShort ==
    /\ cycle.pc \notin {"idle", "wallet", "gate", "balances", "rejected"}
    /\ ~cycle.hasToken \/ cycle.uiAmount < cycle.amount

\* C5 as claimed: with less of fromToken than the amount the cycle returns
\* success=false with an errorCategory of insufficient funds, and the quote
\* service is never asked.
C5_InsufficientCategorised ==
    CycleShort =>
        /\ cycle.pc = "returned"
        /\ cycle.result.success = "false"
        /\ cycle.result.errorCategory = "insufficient_funds"
        /\ swapCall.quoteRequests = 0

\* C5 as amended: once the gate has let the cycle through and the wallet is
\* read to hold less of fromToken than the amount (or none), the cycle returns
\* success=false with an error message that says so and no errorCategory at
\* all, and swap is never entered, so the quote service is never asked.
C5_InsufficientFailsFast ==
    CycleShort =>
        /\ cycle.pc = "returned"
        /\ cycle.result.success = "false"
        /\ cycle.result.error.text =
              (IF cycle.hasToken THEN "Insufficient balance"
               ELSE "Wallet does not have the token")
        /\ cycle.result.errorCategory = "absent"
        /\ cycle.result.signature = "absent"
        /\ balanceWait.pc = "returned"
        /\ swapCall = NoSwap

\* balance 0 against an amount, after a gate that had to wait once
C5_Witness ==
    /\ cycle.pc = "returned"
    /\ cycle.hasToken /\ cycle.uiAmount = 0 /\ cycle.amount = 10
    /\ Len(balanceWait.polls) = 2
    /\ cycle.result.success = "false"

\* the retry policy of one of the two loops of swap: requests made, answers
\* got, waits made, and the positions of asking and of waiting
RetryPolicy(requests, answers, waits, asking, waiting, later) ==
    LET n == Len(answers)
        max == swapCall.maxRetries
    IN  /\ requests <= max
        /\ requests = IF swapCall.pc = asking THEN n + 1 ELSE n
        /\ Len(waits) = Cardinality({i \in 1..n : answers[i] # "ok" /\ i < max})
        /\ \A i \in 1..n :
              IF answers[i] = "ok"
              THEN i = n /\ swapCall.pc \in later
              ELSE IF i < max
              THEN /\ waits[i] = i * 1000
                   /\ requests >= i + 1 \/ (i = n /\ swapCall.pc = waiting)
              ELSE /\ i = n
                   /\ swapCall.pc = "done"
                   /\ swapCall.result.success = "false"
                   /\ swapCall.signRequests = 0

\* C6: in one swap call the quote service is asked at most maxRetries times;
\* failed attempt k < maxRetries is followed by a wait of k*1000 ms and another
\* attempt, the maxRetries-th failure ends the call with a failed result; an
\* HTTP error and a zero or absent outAmount are failed attempts alike, the
\* latter surfacing as "no route".  The swap-transaction request follows the
\* same policy, counting from 1 again.
C6_BoundedRetries ==
    /\ RetryPolicy(swapCall.quoteRequests, swapCall.quoteAnswers, swapCall.quoteWaits,
                   "quote", "quoteWait",
                   {"swapTx", "swapWait", "sign", "confirm", "done"})
    /\ RetryPolicy(swapCall.swapRequests, swapCall.swapAnswers, swapCall.swapWaits,
                   "swapTx", "swapWait", {"sign", "confirm", "done"})
    /\ swapCall.swapRequests > 0 =>
          /\ Len(swapCall.quoteAnswers) >= 1
          /\ swapCall.quoteAnswers[Len(swapCall.quoteAnswers)] = "ok"
    /\ \A i \in 1..Len(swapCall.quoteAnswers) :
          (i = swapCall.maxRetries /\ swapCall.quoteAnswers[i] \in {"zeroOut", "noOut"}) =>
              /\ swapCall.result.error = NoValidRoute
              /\ swapCall.result.errorCategory = "no_route"
              /\ swapCall.swapRequests = 0

\* maxRetries = 3: the quote arrives at the third attempt, the swap
\* transaction never does
C6_Witness ==
    /\ swapCall.maxRetries = 3
    /\ swapCall.quoteAnswers = <<"zeroOut", "httpError", "ok">>
    /\ swapCall.quoteWaits = <<1000, 2000>>
    /\ swapCall.swapAnswers = <<"httpError", "noTransaction", "fetchThrew">>
    /\ swapCall.swapWaits = <<1000, 2000>>
    /\ swapCall.pc = "done"
    /\ swapCall.result.success = "false"

C8_SuccessOnlyWhenConfirmed ==
    /\ swapCall.result.success = "true" => swapCall.confirmation = "ok"
    /\ transferCall.result.success = "true" => transferCall.confirmation = "ok"

(***************************************************************************)
(* SpecNextFire: the next fire time of a daily-time schedule, computed by  *)
(* scheduleTimes and scheduleNext from "HH:MM" strings on the real clock,  *)
(* in seconds.  A string is the sequence of its characters.                *)
(***************************************************************************)
\* times in the list of one daily-time schedule
MaxTimes == 2
\* 24 * 3600000 ms, in seconds
DAY_S == 86400
\* time.hour * 3600000, in seconds
HOUR_S == 3600
\* time.minute * 60000, in seconds
MINUTE_S == 60

DigitValue(c) ==
    CASE c = "0" -> 0 [] c = "1" -> 1 [] c = "2" -> 2 [] c = "3" -> 3 [] c = "4" -> 4
      [] c = "5" -> 5 [] c = "6" -> 6 [] c = "7" -> 7 [] c = "8" -> 8 [] c = "9" -> 9
      [] OTHER -> NaN

\* Number(s) for a string of decimal digits, the empty string (0) and a
\* string with any other character in it (NaN)
RECURSIVE NumberOf(_)
NumberOf(chars) ==
    IF chars = <<>> THEN 0
    ELSE LET front == NumberOf(SubSeq(chars, 1, Len(chars) - 1))
             last == DigitValue(chars[Len(chars)])
         IN  IF front = NaN \/ last = NaN THEN NaN ELSE 10 * front + last

\* timeStr.split(':')
RECURSIVE SplitColon(_)
SplitColon(chars) ==
    IF \A i \in 1..Len(chars) : chars[i] # ":" THEN <<chars>>
    ELSE LET k == CHOOSE i \in 1..Len(chars) :
                      chars[i] = ":" /\ \A j \in 1..(i - 1) : chars[j] # ":"
         IN  <<SubSeq(chars, 1, k - 1)>> \o SplitColon(SubSeq(chars, k + 1, Len(chars)))

\* const [hour, minute] = timeStr.split(':').map(Number); a part that is
\* missing is undefined, which counts as NaN in the arithmetic that follows
ParseTime(chars) ==
    LET parts == SplitColon(chars)
    IN  [hour |-> NumberOf(parts[1]),
         minute |-> IF Len(parts) >= 2 THEN NumberOf(parts[2]) ELSE NaN]

\* time.hour * 3600000 + time.minute * 60000, in seconds
SecondOfDay(time) ==
    IF time.hour = NaN \/ time.minute = NaN THEN NaN
    ELSE time.hour * HOUR_S + time.minute * MINUTE_S

\* parsedTimes: the parsed times, sorted by their place in the day
ParsedTimes(times) ==
    SortTimes([i \in 1..Len(times) |-> SecondOfDay(ParseTime(times[i]))])

\* "HH:MM" as the sequence of its characters
TimeString(hh, mm) == <<hh[1], hh[2], ":", mm[1], mm[2]>>
ValidTimeStrings ==
    {TimeString(hh, mm) : hh \in {<<"0", "0">>, <<"0", "9">>, <<"1", "5">>, <<"2", "3">>},
                          mm \in {<<"0", "0">>, <<"3", "0">>, <<"5", "9">>}}
\* the lists of times of a schedule: any order, repetitions included
ValidTimeLists == UNION {[1..n -> ValidTimeStrings] : n \in 1..MaxTimes}
\* the instants at which the next fire is computed: two days, and in each the
\* seconds around the configured times
Instants ==
    {d * DAY_S + x : d \in {0, 1},
                     x \in {0, 9 * HOUR_S, 9 * HOUR_S + 30 * MINUTE_S,
                            9 * HOUR_S + 30 * MINUTE_S + 1, 15 * HOUR_S + 30 * MINUTE_S,
                            16 * HOUR_S, DAY_S - 1}}

NextFireInit ==
    /\ StoreIdle
    /\ ReadIdle
    /\ SchedIdle
    /\ TradeIdle
    /\ priceWait = NoPriceWait
    /\ MoreIdle
    /\ \E ts \in ValidTimeLists, t \in Instants :
          probe = [fn |-> "scheduleNext", times |-> ts, at |-> t,
                   nextExecution |-> 0, done |-> FALSE]

\* scheduleTimes parses and sorts, scheduleNext computes the next execution
ComputeNextFire ==
    /\ probe.fn = "scheduleNext"
    /\ ~probe.done
    /\ probe' = [probe EXCEPT
                    !.nextExecution = NextExecutionIn(ParsedTimes(probe.times), probe.at, DAY_S),
                    !.done = TRUE]
    /\ UNCHANGED <<storeVars, readVars, schedVars, tradeVars, priceWait, moreVars>>

NextFireNext == ComputeNextFire

SpecNextFire == NextFireInit /\ [][NextFireNext]_vars

\* the least element of a non-empty set of numbers
Least(S) == CHOOSE x \in S : \A y \in S : x <= y

\* the second of the day that "HH:MM" names
ClockSecond(chars) ==
    (10 * DigitValue(chars[1]) + DigitValue(chars[2])) * HOUR_S
    + (10 * DigitValue(chars[4]) + DigitValue(chars[5])) * MINUTE_S

\* C11: for a non-empty list of valid "HH:MM" times in any order, the next
\* fire time computed at instant now is the earliest configured time of the
\* same UTC day strictly after now, and the smallest configured time of the
\* next day when none is left.
C11_NextFireTime ==
    (probe.fn = "scheduleNext" /\ probe.done) =>
        LET configured == {ClockSecond(probe.times[i]) : i \in 1..Len(probe.times)}
            today == (probe.at \div DAY_S) * DAY_S
            left == {today + x : x \in {y \in configured : today + y > probe.at}}
        IN  probe.nextExecution =
                IF left # {} THEN Least(left) ELSE today + DAY_S + Least(configured)

\* ["15:30", "09:30"] at 16:00 of the second day: 09:30 of the third
C11_Witness ==
    /\ probe.fn = "scheduleNext"
    /\ probe.done
    /\ probe.times = <<TimeString(<<"1", "5">>, <<"3", "0">>),
                       TimeString(<<"0", "9">>, <<"3", "0">>)>>
    /\ probe.at = DAY_S + 16 * HOUR_S
    /\ probe.nextExecution = 2 * DAY_S + 9 * HOUR_S + 30 * MINUTE_S

(***************************************************************************)
(* Price monitoring (baseline-range.js): checkPriceCondition.              *)
(***************************************************************************)
\* what price(symbol) can hand back, by shape: a bare number, an object with
\* a price property, the object {success: false, error}, null, undefined, and
\* an object with neither success: false nor a price
Prices == {0, 95, 100, 105}
PriceResults ==
    {[shape |-> "number", price |-> p] : p \in Prices} \cup
    {[shape |-> "priceObject", price |-> p] : p \in Prices} \cup
    {[shape |-> sh, price |-> 0] : sh \in {"failure", "null", "undefined", "otherObject"}}

\* the result object of checkPriceCondition; "absent" and 0 where it has no
\* such field
PriceCheckFailure(text) ==
    [success |-> "false", error |-> text, conditionMet |-> FALSE,
     hasPrice |-> FALSE, currentPrice |-> 0, timeout |-> FALSE]

\* a comparison that leaves the boundary out
ConditionMetStrict(above, currentPrice, targetPrice) ==
    IF above THEN currentPrice > targetPrice ELSE currentPrice < targetPrice

\* above ? currentPrice >= targetPrice : currentPrice <= targetPrice
ConditionMet(above, currentPrice, targetPrice) ==
    IF above THEN currentPrice >= targetPrice ELSE currentPrice <= targetPrice

\* typeof priceResult === 'object'
IsObject(r) == r.shape \in {"priceObject", "failure", "null", "otherObject"}

\* priceResult.price taken as a condition: 0 counts as no price
HasTruthyPrice(r) == r.shape = "priceObject" /\ r.price # 0

\* checkPriceCondition from the settling of price() on: the world after it and
\* the result it returns.  Reading .success of null throws inside the try
\* block, and the catch block makes a result of it.
PriceChecked(W, r, targetPrice, above) ==
    IF r.shape = "null"
    THEN [world |-> Say(Publish(W, "price_check_error", "false"),
                        "Error checking price condition", "error"),
          result |-> PriceCheckFailure("Cannot read properties of null")]
    ELSE IF IsObject(r) /\ r.shape = "failure"
    THEN [world |-> Say(Publish(W, "price_error", "false"), "Failed to get price", "error"),
          result |-> PriceCheckFailure("Failed to get price")]
    ELSE IF r.shape = "number" \/ (IsObject(r) /\ HasTruthyPrice(r))
    THEN LET met == ConditionMet(above, r.price, targetPrice)
         IN  [world |-> IF met
                        THEN Say(Publish(W, "price_condition_met", "true"),
                                 "Price condition satisfied", "info")
                        ELSE Say(Publish(W, "price_condition_waiting", "null"),
                                 "Price threshold not reached", "info"),
              result |-> [success |-> "true", error |-> "absent", conditionMet |-> met,
                          hasPrice |-> TRUE, currentPrice |-> r.price, timeout |-> FALSE]]
    ELSE [world |-> Say(Publish(W, "price_error", "false"), "Invalid price format", "error"),
          result |-> PriceCheckFailure("Invalid price format")]

\* checkPriceCondition up to await price(tokenToMonitor)
PriceCheckEnter(W) ==
    Say(Publish(W, "price_check", "null"), "Checking price condition", "info")

TargetPrices == {0, 100, 105}

PriceInit ==
    /\ StoreIdle
    /\ ReadIdle
    /\ SchedIdle
    /\ TradeIdle
    /\ priceWait = NoPriceWait
    /\ MoreIdle
    /\ \E r \in PriceResults, t \in TargetPrices, above \in BOOLEAN :
          probe = [fn |-> "checkPriceCondition", priceResult |-> r, targetPrice |-> t,
                   above |-> above, result |-> PriceCheckFailure("absent"), done |-> FALSE]

\* one call of checkPriceCondition(tokenToMonitor, targetPrice, above)
CheckPriceCondition ==
    LET checked == PriceChecked(PriceCheckEnter(World), probe.priceResult,
                                probe.targetPrice, probe.above)
    IN  /\ probe.fn = "checkPriceCondition"
        /\ ~probe.done
        /\ Becomes(checked.world)
        /\ probe' = [probe EXCEPT !.result = checked.result, !.done = TRUE]
        /\ UNCHANGED <<readVars, schedVars, priceWait, moreVars>>

PriceNext == CheckPriceCondition

SpecPrice == PriceInit /\ [][PriceNext]_vars

\* C12: with current price p and target t, conditionMet is p >= t for Above and
\* p <= t for Below, so p = t meets both; a result with success=false has
\* conditionMet=false; the call always ends with a result.
C12_ConditionInclusive ==
    (probe.fn = "checkPriceCondition" /\ probe.done) =>
        LET res == probe.result
        IN  /\ res.success \in {"true", "false"}
            /\ res.success = "true" =>
                  /\ res.hasPrice
                  /\ res.conditionMet =
                        IF probe.above THEN res.currentPrice >= probe.targetPrice
                        ELSE res.currentPrice <= probe.targetPrice
            /\ res.success = "false" => ~res.conditionMet /\ res.error # "absent"
            /\ probe.priceResult.shape = "number" =>
                  res.success = "true" /\ res.currentPrice = probe.priceResult.price

\* the feed says 100 against a target of 100, Below: met
C12_Witness ==
    /\ probe.fn = "checkPriceCondition"
    /\ probe.done
    /\ probe.priceResult = [shape |-> "number", price |-> 100]
    /\ probe.targetPrice = 100
    /\ ~probe.above
    /\ probe.result.conditionMet
    /\ currentStatus.stage = "price_condition_met"

\* C13: a bare number p and an object {price: p} both give success=true with
\* currentPrice = p, p = 0 included; {success: false, error} gives
\* success=false; null, undefined and an object without price give
\* success=false with an error and no price.
C13_NormalizesByShape ==
    (probe.fn = "checkPriceCondition" /\ probe.done) =>
        LET res == probe.result
            r == probe.priceResult
        IN  IF r.shape \in {"number", "priceObject"}
            THEN res.success = "true" /\ res.hasPrice /\ res.currentPrice = r.price
            ELSE res.success = "false" /\ res.error # "absent" /\ ~res.hasPrice

(***************************************************************************)
(* SpecPriceWait: waitForPriceCondition, against a feed that answers every *)
(* poll, in no time or in a second, and timers that fire.                  *)
(***************************************************************************)
\* the longest maxWaitTime a wait is called with, in seconds
MaxWait == 90
\* const checkInterval = 30000, in seconds
CHECK_INTERVAL_S == 30

\* a wait that gives up at the first poll that failed
PriceWaitAfterPollGivingUp(W, pw, checked) ==
    LET kind == IF checked.result.success # "true" THEN "failed"
                ELSE IF checked.result.conditionMet THEN "met" ELSE "notMet"
        polled == [pw EXCEPT !.polls = Append(@, kind)]
    IN  IF kind = "notMet"
        THEN [world |-> checked.world,
              wait |-> [polled EXCEPT !.pc = "sleeping",
                                      !.sleeps = Append(@, CHECK_INTERVAL_S)]]
        ELSE [world |-> checked.world,
              wait |-> [polled EXCEPT !.pc = "returned", !.result = checked.result]]

\* the loop body of waitForPriceCondition from the settling of
\* checkPriceCondition on: the world and the wait after it
PriceWaitAfterPoll(W, pw, checked) ==
    LET kind == IF checked.result.success # "true" THEN "failed"
                ELSE IF checked.result.conditionMet THEN "met" ELSE "notMet"
        polled == [pw EXCEPT !.polls = Append(@, kind)]
    IN  IF kind = "failed"
        THEN [world |-> Say(checked.world, "Price check failed, retrying in 30 seconds", "info"),
              wait |-> [polled EXCEPT !.pc = "sleeping",
                                      !.sleeps = Append(@, CHECK_INTERVAL_S)]]
        ELSE IF kind = "met"
        THEN [world |-> Say(Publish(checked.world, "price_condition_achieved", "true"),
                            "Price condition achieved", "info"),
              wait |-> [polled EXCEPT !.pc = "returned", !.result = checked.result]]
        ELSE [world |-> checked.world,
              wait |-> [polled EXCEPT !.pc = "sleeping",
                                      !.sleeps = Append(@, CHECK_INTERVAL_S)]]

\* the result returned when maxWaitTime has elapsed
PriceWaitTimeout ==
    [success |-> "true", error |-> "Price monitoring timeout reached",
     conditionMet |-> FALSE, hasPrice |-> FALSE, currentPrice |-> 0, timeout |-> TRUE]

\* while (Date.now() - startTime < maxWaitTime) at time t: the next poll goes
\* out, or the loop is left and the timeout is published and returned
PriceWaitLoop(W, pw, t) ==
    IF t - pw.startTime < pw.maxWaitTime
    THEN [world |-> PriceCheckEnter(W), wait |-> [pw EXCEPT !.pc = "polling"]]
    ELSE [world |-> Say(Publish(W, "price_monitoring_timeout", "false"),
                        "Price monitoring timeout reached", "info"),
          wait |-> [pw EXCEPT !.pc = "returned", !.result = PriceWaitTimeout]]

\* waitForPriceCondition(tokenToMonitor, targetPrice, above, maxWaitTime)
WaitForPriceCondition(targetPrice, above, maxWaitTime) ==
    /\ priceWait.pc = "idle"
    /\ \E W1 \in {Publish(World, "price_monitoring_start", "null")} :
       \E W2 \in {Say(W1, "Starting price monitoring", "info")} :
       \E W3 \in {Say(W2, "Checking every 30 seconds", "info")} :
       \E started \in {PriceWaitLoop(W3, [NoPriceWait EXCEPT !.startTime = now,
                                             !.maxWaitTime = maxWaitTime,
                                             !.targetPrice = targetPrice,
                                             !.above = above], now)} :
          /\ Becomes(started.world)
          /\ priceWait' = started.wait
    /\ UNCHANGED <<readVars, schedVars, probe, moreVars>>

\* price() settles after duration seconds with r
PriceWaitPoll(r, duration) ==
    /\ priceWait.pc = "polling"
    /\ now' = now + duration
    /\ \E W1 \in {[World EXCEPT !.now = now + duration]} :
       \E checked \in {PriceChecked(W1, r, priceWait.targetPrice, priceWait.above)} :
       \E polled \in {PriceWaitAfterPoll(W1, priceWait, checked)} :
          /\ Becomes(polled.world)
          /\ priceWait' = polled.wait
    /\ UNCHANGED <<readVars, timerVars, probe, moreVars>>

\* the 30 seconds of the sleep are over
PriceWaitWake ==
    /\ priceWait.pc = "sleeping"
    /\ now' = now + CHECK_INTERVAL_S
    /\ \E W1 \in {[World EXCEPT !.now = now + CHECK_INTERVAL_S]} :
       \E woken \in {PriceWaitLoop(W1, priceWait, now + CHECK_INTERVAL_S)} :
          /\ Becomes(woken.world)
          /\ priceWait' = woken.wait
    /\ UNCHANGED <<readVars, timerVars, probe, moreVars>>

MaxWaits == {0, 30, 45, MaxWait}
PollDurations == {0, 1}
\* what the feed answers during a wait
WaitPriceResults ==
    {[shape |-> "number", price |-> 95], [shape |-> "number", price |-> 100],
     [shape |-> "failure", price |-> 0], [shape |-> "undefined", price |-> 0]}

PriceWaitInit ==
    /\ StoreIdle
    /\ ReadIdle
    /\ SchedIdle
    /\ TradeIdle
    /\ RangeIdle

PriceWaitNext ==
    \/ \E above \in BOOLEAN, m \in MaxWaits : WaitForPriceCondition(100, above, m)
    \/ \E r \in WaitPriceResults, d \in PollDurations : PriceWaitPoll(r, d)
    \/ PriceWaitWake

\* the feed answers and the timers fire
SpecPriceWait == PriceWaitInit /\ [][PriceWaitNext]_vars /\ WF_vars(PriceWaitNext)

\* what holds of a wait at every moment
PriceWaitSound ==
    LET pw == priceWait
        n == Len(pw.polls)
        notMet == {i \in 1..n : pw.polls[i] # "met"}
    IN  /\ n <= (pw.maxWaitTime + CHECK_INTERVAL_S - 1) \div CHECK_INTERVAL_S + 1
        /\ Len(pw.sleeps) = Cardinality(notMet)
        /\ \A i \in 1..Len(pw.sleeps) : pw.sleeps[i] = CHECK_INTERVAL_S
        /\ \A i \in 1..n : pw.polls[i] = "met" => i = n /\ pw.pc = "returned"
        /\ pw.pc = "returned" =>
              IF pw.result.timeout
              THEN /\ pw.result = PriceWaitTimeout
                   /\ now - pw.startTime >= pw.maxWaitTime
                   /\ notMet = 1..n
                   /\ currentStatus.stage = "price_monitoring_timeout"
              ELSE /\ n >= 1
                   /\ pw.polls[n] = "met"
                   /\ pw.result.success = "true"
                   /\ pw.result.conditionMet

C15_HeartbeatIffActive == statusUpdateInterval.armed <=> DOMAIN activeSchedules # {}

(***************************************************************************)
(* SpecHeartbeat: the heartbeat over several schedules and many ticks.     *)
(* The schedules have intervals longer than the time the specification     *)
(* covers, so that only the heartbeat fires; time passes a heartbeat       *)
(* period at a time.                                                       *)
(***************************************************************************)
\* the heartbeat periods the specification covers
MaxBeats == 25
\* the schedules registered in it
MaxBeatSchedules == 2
\* the intervals of its schedules, in seconds
LongIntervals == {600}

BeatSchedule(intervalMs) ==
    /\ nextScheduleId <= MaxBeatSchedules
    /\ RegisterInterval(intervalMs, FALSE, "async")

BeatStop(id) == StopSchedule(id)

BeatTick ==
    /\ now < MaxBeats * HEARTBEAT_S
    /\ \A tm \in timers : tm.due >= now + HEARTBEAT_S
    /\ statusUpdateInterval.armed => statusUpdateInterval.due >= now + HEARTBEAT_S
    /\ now' = now + HEARTBEAT_S
    /\ UNCHANGED <<timerVars, storeVars, readVars, tradeVars, rangeVars>>

BeatInit ==
    /\ StoreIdle
    /\ ReadIdle
    /\ SchedIdle
    /\ TradeIdle
    /\ RangeIdle

BeatNext ==
    \/ \E i \in LongIntervals : BeatSchedule(i)
    \/ \E id \in 1..MaxBeatSchedules : BeatStop(id)
    \/ StopAllSchedules
    \/ HeartbeatFire
    \/ BeatTick

SpecHeartbeat == BeatInit /\ [][BeatNext]_vars

\* a step in which the heartbeat timer fires
HeartbeatTicked ==
    /\ statusUpdateInterval.armed
    /\ statusUpdateInterval'.armed
    /\ statusUpdateInterval'.ticks = statusUpdateInterval.ticks + 1

\* C16: on every heartbeat tick the time remaining to the next fire is
\* published for every active schedule: the snapshot after the tick carries
\* the countdown of each of them.
C16_CountdownOfEverySchedule ==
    [][HeartbeatTicked =>
         \A id \in DOMAIN activeSchedules' :
            /\ currentStatus'.stage = "waiting_next_execution"
            /\ \E carried \in {currentStatus'.details.schedule} :
                  /\ carried.id = id
                  /\ carried.nextExecutionIn =
                        ScheduleInfo(activeSchedules', id, now').nextExecutionIn]_vars

\* C17: of the ticks of one heartbeat run, ticks 12, 24, ... append one log
\* entry; every other tick replaces the snapshot and leaves the log buffer
\* as it is.
C17_EveryTwelfthLogs ==
    [][HeartbeatTicked =>
         /\ currentStatus' = StatusObject("waiting_next_execution", "null",
                                HeartbeatDetails(activeSchedules', now'), Null, now')
         /\ IF statusUpdateInterval'.ticks % 12 = 0
            THEN /\ Len(logs') = Len(logs) + 1
                 /\ SubSeq(logs', 1, Len(logs)) = logs
                 /\ logs'[Len(logs')].message = "waiting_next_execution"
            ELSE logs' = logs]_vars

\* the 24th tick of a run has been logged, as the 12th was
C17_Witness ==
    /\ statusUpdateInterval.armed
    /\ statusUpdateInterval.ticks = 24
    /\ Len(logs) = 2

\* C18: a fire in flight when its schedule is stopped (stopSchedule or
\* stopAllSchedules) runs to completion, and when it settles the scheduler
\* holds the record of that execution as for any other fire.
C18_StoppedFireRecorded ==
    [][\A e \in inflight \ inflight' :
          e.sid \in stoppedIds =>
             \E s \in DOMAIN activeSchedules' :
                /\ activeSchedules'[s].lastExecution # Null
                /\ activeSchedules'[s].lastExecution.fire = e.eid]_vars

\* C19: whenever a driver call fails (the wallet service throws, the balance
\* source throws after the gate, ...) the call ends with a result
\* {success: false, error}, not with another exception, and the snapshot has
\* success = false by then.
C19_DriverFailurePublished ==
    (cycle.pc = "rejected" \/ (cycle.pc = "returned" /\ cycle.result.success = "false"))
    => /\ cycle.pc = "returned"
       /\ cycle.result.error # NoMessage
       /\ currentStatus.success = "false"

\* parsed times of a well-formed configuration: at least one, each a number
WellFormedTimes(pt) == Len(pt) > 0 /\ \A i \in 1..Len(pt) : pt[i] # NaN

\* C20: a malformed list of times (empty, or with a time that is no number) is
\* rejected at registration: no schedule for it is in the active set and no
\* timer is armed for it.
C20_MalformedRejected ==
    /\ \A s \in DOMAIN activeSchedules :
          activeSchedules[s].type = "times" => WellFormedTimes(activeSchedules[s].times)
    /\ \A tm \in timers : tm.kind = "timeout" => WellFormedTimes(tm.times)

(***************************************************************************)
(* SpecTokens: the token directory, getJupiterTokens (trading.js).  A list *)
(* is named by the call whose fetch delivered it.                          *)
(***************************************************************************)
\* the calls of getJupiterTokens made, and the time covered, in seconds
MaxTokenCalls == 4
MaxTokenTime == 650
\* const CACHE_DURATION = 5 * 60 * 1000, in seconds
CACHE_DURATION == 300

\* how the fetch of the list can go: response.ok with a list, a response
\* that is not ok, a fetch that throws, a body that is no JSON
FetchOutcomes == {"ok", "notOk", "networkError", "badJson"}

\* a cache that is refreshed from an age of CACHE_DURATION on
CacheStaleEarly(cache, cacheTime, t) == cache = NoList \/ (t - cacheTime) >= CACHE_DURATION
\* !jupiterTokensCache || (now - jupiterTokensCacheTime) > CACHE_DURATION
CacheStale(cache, cacheTime, t) == cache = NoList \/ (t - cacheTime) > CACHE_DURATION

\* getJupiterTokens() up to its await: with a fresh cache it returns the cache
GetJupiterTokens ==
    LET call == nextTokenCall
        seen == [call |-> call, kind |-> "none", list |-> NoList,
                 hadCache |-> jupiterTokensCache # NoList,
                 age |-> now - jupiterTokensCacheTime, refresh |-> "none",
                 cacheBefore |-> jupiterTokensCache, requested |-> FALSE]
    IN  /\ nextTokenCall <= MaxTokenCalls
        /\ nextTokenCall' = nextTokenCall + 1
        /\ IF CacheStale(jupiterTokensCache, jupiterTokensCacheTime, now)
           THEN /\ tokenFetches' = tokenFetches \cup
                                      {[seen EXCEPT !.requested = TRUE] @@ [at |-> now]}
                /\ UNCHANGED tokenResult
           ELSE /\ tokenResult' = [seen EXCEPT !.kind = "returned",
                                               !.list = jupiterTokensCache]
                /\ UNCHANGED tokenFetches
        /\ UNCHANGED <<jupiterTokensCache, jupiterTokensCacheTime, storeVars, readVars,
                       schedVars, tradeVars, probe, priceWait, driverVars, sideVars>>

\* the fetch of call c settles: the rest of getJupiterTokens
TokenFetchSettles(c, outcome) ==
    LET ended == [call |-> c.call, kind |-> "returned", list |-> jupiterTokensCache,
                  hadCache |-> c.hadCache, age |-> c.age, refresh |-> "failed",
                  cacheBefore |-> jupiterTokensCache, requested |-> TRUE]
    IN  /\ c \in tokenFetches
        /\ tokenFetches' = tokenFetches \ {c}
        /\ IF outcome = "ok"
           THEN /\ jupiterTokensCache' = c.call
                /\ jupiterTokensCacheTime' = c.at
                /\ tokenResult' = [ended EXCEPT !.list = c.call, !.refresh = "ok"]
           ELSE /\ UNCHANGED <<jupiterTokensCache, jupiterTokensCacheTime>>
                /\ tokenResult' =
                      IF outcome = "notOk" THEN ended
                      ELSE IF jupiterTokensCache = NoList
                           THEN [ended EXCEPT !.kind = "threw"]
                           ELSE ended
        /\ UNCHANGED <<nextTokenCall, storeVars, readVars, schedVars, tradeVars,
                       probe, priceWait, driverVars, sideVars>>

TokenSteps == {150, 151}
\* time passes
TokenTick(d) ==
    /\ now + d <= MaxTokenTime
    /\ now' = now + d
    /\ UNCHANGED <<storeVars, readVars, timerVars, tradeVars, rangeVars>>

TokensInit ==
    /\ StoreIdle
    /\ ReadIdle
    /\ SchedIdle
    /\ TradeIdle
    /\ RangeIdle

TokensNext ==
    \/ GetJupiterTokens
    \/ \E c \in tokenFetches, o \in FetchOutcomes : TokenFetchSettles(c, o)
    \/ \E d \in TokenSteps : TokenTick(d)

SpecTokens == TokensInit /\ [][TokensNext]_vars

\* C21: getJupiterTokens issues no request while the cached list is less
\* than 5 minutes old and refreshes a missing or older cache; a failed
\* refresh (network error or response not ok) returns the stale list when
\* there is one and throws when there is none: a call never returns an
\* absent list.
C21_NeverAbsentList ==
    tokenResult.kind # "none" =>
       /\ (tokenResult.hadCache /\ tokenResult.age < 300) => ~tokenResult.requested
       /\ (~tokenResult.hadCache \/ tokenResult.age > 300) => tokenResult.requested
       /\ tokenResult.refresh = "failed" =>
             IF tokenResult.cacheBefore # NoList
             THEN tokenResult.kind = "returned" /\ tokenResult.list = tokenResult.cacheBefore
             ELSE tokenResult.kind = "threw"
       /\ tokenResult.kind = "returned" => tokenResult.list # NoList

\* "maintains 0.001 SOL rent reserve", in the unit of the cycle's amounts
RENT_RESERVE_SOL == 10

\* the cycle has read its balances and what is left of the SOL balance after
\* the trade is less than the reserve
ReserveShort ==
    /\ cycle.pc \notin {"idle", "wallet", "gate", "balances", "rejected"}
    /\ cycle.fromToken = "SOL"
    /\ cycle.hasToken
    /\ cycle.uiAmount - cycle.amount < RENT_RESERVE_SOL

\* C22: with SOL as the source token the cycle enters the swap only if
\* balance - amount >= reserve; otherwise it fails fast and makes no quote
\* request, so a trade of the whole SOL balance is never attempted.
C22_ReserveKept ==
    ReserveShort =>
       /\ cycle.pc # "swap"
       /\ swapCall.pc = "idle"
       /\ swapCall.quoteRequests = 0
       /\ cycle.pc = "returned" => cycle.result.success = "false"

C24_RecordedOutcome ==
    \A s \in DOMAIN activeSchedules :
        LET le == activeSchedules[s].lastExecution
        IN  le # Null =>
               IF "details" \in DOMAIN le
               THEN le.success = (IF le.details = "resolveFail" THEN "false" ELSE "true")
               ELSE le.success = "false"

(***************************************************************************)
(* The Range driver (baseline-range.js, baselineFunction): the loop of     *)
(* executions of executeTrading, one at once and then one per 30 seconds.  *)
(***************************************************************************)
\* the clock of the Range specification stops here
MaxRangeTime == 60
\* setInterval(..., 30000), in seconds
RANGE_INTERVAL_S == 30

\* an execution of executeTrading at its first statement
NewTick(byTimer, t) ==
    [byTimer |-> byTimer, at |-> t, pc |-> "entered", priceCheck |-> "none",
     polls |-> 0, wake |-> 0, gateReturned |-> FALSE, gateBalance |-> 0,
     hasToken |-> FALSE, uiAmount |-> 0, swapCalled |-> FALSE, result |-> "none",
     stages |-> <<>>]

\* updateStatus by an execution, noted in the execution's own history
TickPublish(S, stage, success) ==
    [S EXCEPT !.world = Publish(S.world, stage, success),
              !.tick.stages = Append(@, stage)]

\* logger.log by an execution
TickSay(S, message, level) == [S EXCEPT !.world = Say(S.world, message, level)]

\* executeTrading returns: to the callback of the interval, which logs the
\* outcome, or to baselineFunction, which publishes that the monitoring is
\* active and returns
TickReturn(S, result) ==
    LET S1 == [S EXCEPT !.tick.pc = "done", !.tick.result = result]
    IN  IF S.tick.byTimer
        THEN TickSay(S1, IF result = "skipped" THEN "Execution cycle skipped"
                         ELSE IF result = "success" THEN "Trading cycle completed successfully"
                         ELSE "Trading cycle failed", "info")
        ELSE LET W1 == Publish(S1.world, "continuous_monitoring_active", "true")
                 W2 == Say(Say(W1, "Continuous monitoring started", "info"),
                           "To stop monitoring", "info")
             IN  [S1 EXCEPT !.world = W2, !.call.pc = "returned"]

\* a throw inside the try block of executeTrading: its catch block logs the
\* error and returns a failure
TickThrow(S) == TickReturn(TickSay(S, "Trading execution error", "error"), "failure")

\* waitForBalance(wallet.walletAddress, 0.001) up to its first poll
TickGateEnter(S) ==
    [TickPublish(S, "balance_check", "null") EXCEPT !.tick.pc = "gate"]

\* an execution that goes on to the balance gate whatever the price check said
TickAfterPriceUnconditional(S, checked) ==
    TickGateEnter(TickSay([S EXCEPT !.world = checked.world,
                                    !.tick.priceCheck =
                                        IF checked.result.success # "true" THEN "failed"
                                        ELSE IF checked.result.conditionMet THEN "met"
                                        ELSE "notMet"],
                          "Price condition satisfied", "info"))

\* executeTrading from the return of checkPriceCondition on
TickAfterPrice(S, checked) ==
    LET S0 == [S EXCEPT !.world = checked.world]
    IN  IF checked.result.success # "true"
        THEN TickReturn(TickSay([S0 EXCEPT !.tick.priceCheck = "failed"],
                                "Price check failed", "info"), "skipped")
        ELSE IF ~checked.result.conditionMet
        THEN TickReturn(TickSay([S0 EXCEPT !.tick.priceCheck = "notMet"],
                                "Price threshold not reached", "info"), "skipped")
        ELSE TickGateEnter(TickSay([S0 EXCEPT !.tick.priceCheck = "met"],
                                   "Price condition satisfied", "info"))

\* executeTrading up to its first await: the price check when a token and a
\* target price are given, the balance gate otherwise
TickEnter(S) ==
    LET S1 == TickPublish(S, "execution_start", "null")
    IN  IF S.call.monitor
        THEN [TickSay(S1, "Checking price condition", "info") EXCEPT
                 !.world = PriceCheckEnter(@), !.tick.pc = "price"]
        ELSE TickGateEnter(S1)

\* one turn of the while (true) of waitForBalance inside an execution, from
\* the settling of getBalances on
TickAfterPoll(S, o, t) ==
    LET S0 == [S EXCEPT !.tick.polls = @ + 1]
        sleep(X) == [X EXCEPT !.tick.pc = "gateSleep", !.tick.wake = t + BALANCE_SLEEP_S]
    IN  IF o.threw
        THEN sleep(TickSay(TickPublish(S0, "balance_error", "false"),
                           "Error checking balance", "error"))
        ELSE LET S1 == TickSay(S0, "All balances:", "json")
             IN  IF GateSufficient(CurrentBalance(o), CYCLE_MINIMUM_SOL)
                 THEN LET S2 == TickSay(TickPublish(S1, "balance_ready", "true"),
                                        "Wallet balance ready", "info")
                          S3 == [S2 EXCEPT !.tick.gateReturned = TRUE,
                                           !.tick.gateBalance = CurrentBalance(o)]
                          S4 == TickSay(TickPublish(S3, "trading_balance_check", "null"),
                                        "Checking wallet balances for trading", "info")
                      IN  [S4 EXCEPT !.tick.pc = "balances"]
                 ELSE sleep(TickSay(TickPublish(S1, "balance_insufficient", "null"),
                                    "Insufficient balance", "info"))

\* from the settling of the execution's own getBalances on
TickAfterBalances(S, b) ==
    IF b.threw THEN TickThrow(S)
    ELSE LET S0 == [S EXCEPT !.tick.hasToken = b.hasToken, !.tick.uiAmount = b.uiAmount]
             S1 == TickSay(S0, "Found tokens in wallet", "info")
         IN  IF ~b.hasToken
             THEN TickReturn(TickSay(TickPublish(S1, "trading_error", "false"),
                                     "No token found in wallet", "info"), "failure")
             ELSE IF b.uiAmount < S.call.amount
             THEN TickReturn(TickSay(TickPublish(S1, "trading_error", "false"),
                                     "Insufficient balance", "info"), "failure")
             ELSE LET S2 == TickSay(S1, "Sufficient balance", "info")
                      S3 == TickSay(TickPublish(S2, "token_lookup", "null"),
                                    "Looking up token address", "info")
                  IN  [S3 EXCEPT !.tick.pc = "tokenLookup"]

\* from the settling of getTokenMintAddress(toToken) on
TickAfterTokenLookup(S, found) ==
    IF ~found
    THEN TickReturn(TickSay(TickPublish(S, "trading_error", "false"),
                            "Could not find token", "info"), "failure")
    ELSE LET S1 == TickSay(S, "token found", "info")
             S2 == TickSay(TickPublish(S1, "account_check", "null"),
                           "Checking if you have an account", "info")
         IN  [S2 EXCEPT !.tick.pc = "accountCheck"]

\* from the settling of checkTokenAccountExists on: the reserve check, then
\* the call of swap
TickAfterAccountCheck(S, accountExists) ==
    LET S1 == TickSay(S, IF accountExists THEN "account ready"
                         ELSE "account will be created", "info")
    IN  IF S.call.fromToken = "SOL" /\ S.tick.uiAmount < MIN_REQUIRED_SOL
        THEN LET S2 == TickPublish(S1, "trading_error", "false")
                 S3 == TickSay(TickSay(TickSay(TickSay(S2, "Not enough SOL for swap fees",
                                                       "info"),
                                               "Current balance", "info"),
                                       "Minimum needed", "info"),
                               "Please add SOL to continue", "info")
             IN  TickReturn(S3, "failure")
        ELSE LET S2 == TickPublish(S1, "swapping", "null")
                 S3 == TickSay(TickSay(S2, "Executing swap", "info"),
                               "Using 1.5% slippage tolerance", "info")
             IN  [S3 EXCEPT !.tick.pc = "swap", !.tick.swapCalled = TRUE]

\* from the return of swap on
TickAfterSwap(S, succeeded) ==
    IF succeeded
    THEN TickReturn(TickSay(TickSay(TickPublish(S, "trading_success", "true"),
                                    "Trading execution completed successfully", "info"),
                            "Transaction", "info"), "success")
    ELSE TickReturn(TickSay(TickPublish(S, "trading_error", "false"),
                            "Trading execution failed", "info"), "failure")

\* the store, one execution and the call of the driver, taken together
TickWorld(i) == [world |-> World, tick |-> rangeTicks[i], call |-> rangeCall]
\* the same for an execution that begins now
FirstWorld(W, call, byTimer) == [world |-> W, tick |-> NewTick(byTimer, now), call |-> call]

TickBecomes(S, i) ==
    /\ Becomes(S.world)
    /\ rangeTicks' = [rangeTicks EXCEPT ![i] = S.tick]
    /\ rangeCall' = S.call

TickBegins(S) ==
    /\ Becomes(S.world)
    /\ rangeTicks' = Append(rangeTicks, S.tick)
    /\ rangeCall' = S.call

\* baselineFunction(ownerAddress, fromToken, toToken, amount, tokenToMonitor,
\* tokenToMonitorPrice, above) up to its first await
RangeBaselineFunction(fromToken, amount, monitor, targetPrice, above) ==
    /\ NothingInProgress
    /\ Becomes(Publish(Publish(World, "initializing", "null"), "wallet_init", "null"))
    /\ rangeCall' = [pc |-> "wallet", fromToken |-> fromToken, amount |-> amount,
                     monitor |-> monitor, targetPrice |-> targetPrice, above |-> above]
    /\ UNCHANGED <<readVars, schedVars, probe, priceWait, sideVars, cacheVars, rangeLoop, rangeTicks, dcaCalls>>

\* getOrCreateWallet settles.  A throw goes to the outer catch block, which
\* reads `wallet`, a const of the try block, and so throws in its turn: the
\* promise is rejected.  Otherwise the interval is set, and the first
\* execution begins at once.
RangeWallet(threw) ==
    /\ rangeCall.pc = "wallet"
    /\ IF threw
       THEN /\ rangeCall' = [rangeCall EXCEPT !.pc = "rejected"]
            /\ UNCHANGED <<storeVars, tradeVars, rangeLoop, rangeTicks>>
       ELSE \E W1 \in {Say(Publish(World, "wallet_ready", "true"),
                           "Wallet initialized", "info")} :
            \E W2 \in {Say(Publish(W1, "continuous_monitoring_start", "null"),
                           "Starting continuous monitoring", "info")} :
            \E W3 \in {Say(W2, "Executing initial trading cycle", "info")} :
            \E S \in {TickEnter(FirstWorld(W3, [rangeCall EXCEPT !.pc = "initial"],
                                           FALSE))} :
               /\ TickBegins(S)
               /\ rangeLoop' = [armed |-> TRUE, due |-> now + RANGE_INTERVAL_S]
    /\ UNCHANGED <<readVars, schedVars, probe, priceWait, sideVars, cacheVars, dcaCalls>>

\* a timer that fires once: its callback begins an execution and nothing is
\* armed afterwards
RangeIntervalFireOnce ==
    /\ rangeLoop.armed
    /\ rangeLoop.due = now
    /\ \E S \in {TickEnter(FirstWorld(World, rangeCall, TRUE))} : TickBegins(S)
    /\ rangeLoop' = NoTimer
    /\ UNCHANGED <<readVars, schedVars, probe, priceWait, sideVars, cacheVars, dcaCalls>>

\* the interval fires: its callback begins an execution
RangeIntervalFire ==
    /\ rangeLoop.armed
    /\ rangeLoop.due = now
    /\ \E S \in {TickEnter(FirstWorld(World, rangeCall, TRUE))} : TickBegins(S)
    /\ rangeLoop' = [rangeLoop EXCEPT !.due = now + RANGE_INTERVAL_S]
    /\ UNCHANGED <<readVars, schedVars, probe, priceWait, sideVars, cacheVars, dcaCalls>>

\* price(tokenToMonitor) settles inside checkPriceCondition
RangeTickPrice(i, r) ==
    /\ rangeTicks[i].pc = "price"
    /\ \E checked \in {PriceChecked(World, r, rangeCall.targetPrice, rangeCall.above)} :
       \E S \in {TickAfterPrice(TickWorld(i), checked)} : TickBecomes(S, i)
    /\ UNCHANGED <<readVars, schedVars, probe, priceWait, sideVars, cacheVars, rangeLoop, dcaCalls>>

\* getBalances settles inside waitForBalance
RangeTickPoll(i, o) ==
    /\ rangeTicks[i].pc = "gate"
    /\ \E S \in {TickAfterPoll(TickWorld(i), o, now)} : TickBecomes(S, i)
    /\ UNCHANGED <<readVars, schedVars, probe, priceWait, sideVars, cacheVars, rangeLoop, dcaCalls>>

\* the 60 seconds of a sleep of waitForBalance are over
RangeTickWake(i) ==
    /\ rangeTicks[i].pc = "gateSleep"
    /\ rangeTicks[i].wake = now
    /\ rangeTicks' = [rangeTicks EXCEPT ![i].pc = "gate"]
    /\ UNCHANGED <<storeVars, readVars, schedVars, tradeVars, probe, priceWait, sideVars, cacheVars,
                   rangeCall, rangeLoop, dcaCalls>>

RangeTickBalances(i, b) ==
    /\ rangeTicks[i].pc = "balances"
    /\ rangeCall.fromToken = "SOL" => b.threw \/ b.hasToken
    /\ \E S \in {TickAfterBalances(TickWorld(i), b)} : TickBecomes(S, i)
    /\ UNCHANGED <<readVars, schedVars, probe, priceWait, sideVars, cacheVars, rangeLoop, dcaCalls>>

RangeTickTokenLookup(i, found) ==
    /\ rangeTicks[i].pc = "tokenLookup"
    /\ \E S \in {TickAfterTokenLookup(TickWorld(i), found)} : TickBecomes(S, i)
    /\ UNCHANGED <<readVars, schedVars, probe, priceWait, sideVars, cacheVars, rangeLoop, dcaCalls>>

RangeTickAccountCheck(i, accountExists) ==
    /\ rangeTicks[i].pc = "accountCheck"
    /\ \E S \in {TickAfterAccountCheck(TickWorld(i), accountExists)} : TickBecomes(S, i)
    /\ UNCHANGED <<readVars, schedVars, probe, priceWait, sideVars, cacheVars, rangeLoop, dcaCalls>>

\* swap returns its result
RangeTickSwap(i, succeeded) ==
    /\ rangeTicks[i].pc = "swap"
    /\ \E S \in {TickAfterSwap(TickWorld(i), succeeded)} : TickBecomes(S, i)
    /\ UNCHANGED <<readVars, schedVars, probe, priceWait, sideVars, cacheVars, rangeLoop, dcaCalls>>

\* the moments at which a timer of the driver is due
RangeDues ==
    (IF rangeLoop.armed THEN {rangeLoop.due} ELSE {}) \cup
    {rangeTicks[i].wake : i \in {j \in DOMAIN rangeTicks : rangeTicks[j].pc = "gateSleep"}}

\* an execution that awaits the answer of a service
TickAwaits(t) == t.pc \in {"price", "gate", "balances", "tokenLookup", "accountCheck", "swap"}

\* time passes up to the next moment at which a timer is due; the services
\* answer within the second, so an execution outlasts the interval only by
\* the sleeps of the balance gate
RangeAdvance ==
    /\ RangeDues # {}
    /\ now \notin RangeDues
    /\ \A i \in DOMAIN rangeTicks : ~TickAwaits(rangeTicks[i])
    /\ now' = Least(RangeDues)
    /\ now' <= MaxRangeTime
    /\ UNCHANGED <<storeVars, readVars, timerVars, tradeVars, rangeVars>>

RangeInit ==
    /\ StoreIdle
    /\ ReadIdle
    /\ SchedIdle
    /\ TradeIdle
    /\ RangeIdle

RangeAmounts == {10}
RangePrices ==
    {[shape |-> "number", price |-> 95], [shape |-> "number", price |-> 100],
     [shape |-> "failure", price |-> 0]}
RangePolls == {o \in PollOutcomes : o.threw \/ (o.hasSol /\ o.sol \in {9, 10})}
RangeReads == {b \in BalanceReads : b.uiAmount \in {0, 30}}
\* the wallet has no account of the destination token yet
RangeAccounts == {FALSE}

RangeNext ==
    \/ \E f \in FromTokens, a \in RangeAmounts, monitor \in BOOLEAN :
          RangeBaselineFunction(f, a, monitor, 100, TRUE)
    \/ \E threw \in BOOLEAN : RangeWallet(threw)
    \/ RangeIntervalFire
    \/ \E i \in DOMAIN rangeTicks :
          \/ \E r \in RangePrices : RangeTickPrice(i, r)
          \/ \E o \in RangePolls : RangeTickPoll(i, o)
          \/ RangeTickWake(i)
          \/ \E b \in RangeReads : RangeTickBalances(i, b)
          \/ \E found \in BOOLEAN : RangeTickTokenLookup(i, found)
          \/ \E e \in RangeAccounts : RangeTickAccountCheck(i, e)
          \/ \E ok \in BOOLEAN : RangeTickSwap(i, ok)
    \/ RangeAdvance

SpecRange == RangeInit /\ [][RangeNext]_vars

\* C25: with a price condition configured, an execution of the Range driver
\* calls swap only after checkPriceCondition returned success with
\* conditionMet in that execution and the balance gate then returned; an
\* execution whose price check failed or whose condition is not met polls no
\* balance for the gate, calls no swap and has ended with a skipped result.
C25_TradeOnlyWhenMet ==
    rangeCall.monitor =>
        \A i \in DOMAIN rangeTicks :
            LET t == rangeTicks[i]
            IN  /\ t.pc \notin {"entered", "price"} => t.priceCheck # "none"
                /\ t.swapCalled => t.priceCheck = "met" /\ t.gateReturned
                /\ t.gateReturned \/ t.polls > 0 => t.priceCheck = "met"
                /\ t.priceCheck \in {"failed", "notMet"} =>
                       /\ t.pc = "done"
                       /\ t.result = "skipped"
                       /\ t.polls = 0
                       /\ ~t.gateReturned
                       /\ ~t.swapCalled
                       /\ \A k \in DOMAIN t.stages : t.stages[k] # "balance_check"

\* one execution was skipped on a condition not met, another one on a failed
\* check, and a third one went through the gate to the swap
C25_Witness ==
    /\ rangeCall.monitor
    /\ \E i, j, k \in DOMAIN rangeTicks :
          /\ rangeTicks[i].priceCheck = "notMet" /\ rangeTicks[i].result = "skipped"
          /\ rangeTicks[j].priceCheck = "failed" /\ rangeTicks[j].result = "skipped"
          /\ rangeTicks[k].priceCheck = "met" /\ rangeTicks[k].swapCalled

\* the executions the interval began, in order
TimerTicks == SelectSeq(rangeTicks, LAMBDA t : t.byTimer)

\* what holds of the loop at every moment once it is set: with the interval
\* set at t0, the k-th execution of the interval began at t0 + 30k, none of
\* these moments has passed without its execution, the next one is due 30
\* seconds after the latest, and no execution is skipped whose own price
\* check found the condition met
RangeLoopSound ==
    rangeLoop.armed =>
        LET t0 == rangeTicks[1].at
        IN  /\ ~rangeTicks[1].byTimer
            /\ \A k \in DOMAIN TimerTicks : TimerTicks[k].at = t0 + RANGE_INTERVAL_S * k
            /\ rangeLoop.due = t0 + RANGE_INTERVAL_S * (Len(TimerTicks) + 1)
            /\ now <= rangeLoop.due
            /\ \A i \in DOMAIN rangeTicks :
                   rangeTicks[i].priceCheck = "met" => rangeTicks[i].result # "skipped"

\* C26: once the Range driver has set its interval, an execution begins
\* every 30 seconds whatever the earlier executions produced (skipped,
\* failed, thrown or successful), the interval stays set, and an execution
\* whose condition is met goes on to trade whatever came before it.
C26_LoopKeepsTicking ==
    /\ []RangeLoopSound
    /\ [][rangeLoop.armed => rangeLoop'.armed]_vars

\* the first execution failed on a throw of getBalances, the one of second 30
\* traded with success, and the one of second 60 has called swap again
C26_Witness ==
    /\ Len(rangeTicks) = 3
    /\ rangeTicks[1].result = "failure"
    /\ rangeTicks[1].stages[Len(rangeTicks[1].stages)] = "trading_balance_check"
    /\ rangeTicks[2].result = "success"
    /\ rangeTicks[3].byTimer
    /\ rangeTicks[3].at = rangeTicks[1].at + 2 * RANGE_INTERVAL_S
    /\ rangeTicks[3].swapCalled

(***************************************************************************)
(* The DCA driver with its schedule (baseline-dca.js): baselineFunction    *)
(* called by the user, and called again by every fire of the schedule it   *)
(* registered.  The trade cycle of a call is one step here, with the       *)
(* outcomes SpecTrade shows it to have.                                    *)
(***************************************************************************)
\* scheduleOptions = null
NoOptions == [given |-> FALSE, type |-> "absent", kind |-> "absent", n |-> 0,
              times |-> <<>>, executeImmediately |-> FALSE]
IntervalOptions(n, executeImmediately) ==
    [given |-> TRUE, type |-> "interval", kind |-> "number", n |-> n, times |-> <<>>,
     executeImmediately |-> executeImmediately]
TimesOptions(times) ==
    [given |-> TRUE, type |-> "times", kind |-> "list", n |-> 0, times |-> times,
     executeImmediately |-> FALSE]

\* a callback that hands the schedule options on to baselineFunction
CallbackOptionsPassedOn(options) == options
\* executionFunction = () => baselineFunction(ownerAddress, fromToken, toToken, amount)
CallbackOptions(options) == NoOptions

\* !scheduleOptions.type || !scheduleOptions.value
OptionsIncomplete(o) == o.type = "absent" \/ o.kind = "absent" \/ (o.kind = "number" /\ o.n = 0)

\* typeof scheduleOptions.value === 'number' && scheduleOptions.value > 0
IntervalUsable(o) == o.kind = "number" /\ o.n > 0

\* options that ask for a schedule the scheduler can run
ValidOptions(o) ==
    /\ o.given
    /\ \/ o.type = "interval" /\ IntervalUsable(o)
       \/ o.type = "times" /\ o.kind = "list" /\ WellFormedTimes(o.times)

\* a call of baselineFunction at its first await; eid is 0 for the user's
\* call and the execution of the schedule for a callback's
NewDcaCall(eid, options) ==
    [eid |-> eid, options |-> options, pc |-> "wallet", cycles |-> 0,
     registered |-> <<>>, result |-> "none",
     polls |-> 0, pollErrors |-> 0, wake |-> 0, swaps |-> 0]

\* baselineFunction up to await getOrCreateWallet
DcaEnter(W) == Publish(Publish(W, "initializing", "null"), "wallet_init", "null")

\* the calls after a fire of schedule sid has called the callback: the
\* options it calls baselineFunction with are those of executionFunction
Registrar(calls, sid) ==
    CHOOSE i \in DOMAIN calls :
        \E k \in DOMAIN calls[i].registered : calls[i].registered[k] = sid
CallbackBegins(calls, sid, eid) ==
    Append(calls, NewDcaCall(eid, CallbackOptions(calls[Registrar(calls, sid)].options)))

\* baselineFunction(ownerAddress, fromToken, toToken, amount, scheduleOptions)
\* called by the user
DcaBaselineFunction(options) ==
    /\ NothingInProgress
    /\ Becomes(DcaEnter(World))
    /\ dcaCalls' = <<NewDcaCall(0, options)>>
    /\ UNCHANGED <<readVars, schedVars, probe, priceWait, sideVars, cacheVars, rangeCall, rangeLoop,
                   rangeTicks>>

\* getOrCreateWallet settles in call i: the dispatch on scheduleOptions.  A
\* throw, of the wallet service or of createScheduledExecution, goes to the
\* catch block, which reads the const `wallet` of the try block and throws in
\* its turn: the promise is rejected.
DcaWallet(i, threw) ==
    LET call == dcaCalls[i]
        o == call.options
        sid == nextScheduleId
        ready == Say(Publish(World, "wallet_ready", "true"), "Wallet initialized", "info")
        rejected == [dcaCalls EXCEPT ![i].pc = "rejected"]
    IN
    /\ call.pc = "wallet"
    /\ IF threw
       THEN /\ dcaCalls' = rejected
            /\ UNCHANGED <<storeVars, tradeVars, schedVars>>
       ELSE IF ~o.given
       THEN /\ \E W1 \in {Say(Publish(ready, "immediate_execution", "null"),
                              "Executing trading immediately", "info")} :
                  Becomes(Publish(Publish(W1, "execution_start", "null"),
                                  "balance_check", "null"))
            /\ dcaCalls' = [dcaCalls EXCEPT ![i].pc = "cycle", ![i].cycles = @ + 1]
            /\ UNCHANGED schedVars
       ELSE \E W1 \in {Publish(ready, "scheduling", "null")} :
            IF OptionsIncomplete(o)
            THEN /\ Becomes(Say(Publish(W1, "scheduling_error", "false"),
                                "Invalid schedule configuration", "info"))
                 /\ dcaCalls' = [dcaCalls EXCEPT ![i].pc = "returned",
                                                 ![i].result = "failure"]
                 /\ UNCHANGED schedVars
            ELSE IF o.type = "interval" /\ IntervalUsable(o)
            THEN /\ RegisterIntervalEffect(o.n, o.executeImmediately, "async")
                 /\ \E W2 \in {IF o.executeImmediately THEN DcaEnter(W1) ELSE W1} :
                    \E W3 \in {[W2 EXCEPT !.status =
                                   SetScheduleInPlace(@, ScheduleInfo(activeSchedules', sid,
                                                                      now))]} :
                       Becomes(Say(Publish(W3, "scheduled", "true"),
                                   "Scheduled execution started", "info"))
                 /\ \E registered \in {[dcaCalls EXCEPT ![i].pc = "returned",
                                                        ![i].result = "success",
                                                        ![i].registered = Append(@, sid)]} :
                       dcaCalls' = IF o.executeImmediately
                                   THEN CallbackBegins(registered, sid, nextExecId)
                                   ELSE registered
            ELSE IF o.type = "times" /\ o.kind = "list"
            THEN /\ ScheduleTimesEffect(o.times)
                 /\ IF NextThrows(SortTimes(o.times), now, DayLen)
                    THEN /\ Becomes(W1)
                         /\ dcaCalls' = [rejected EXCEPT ![i].registered = Append(@, sid)]
                    ELSE /\ \E W3 \in {[W1 EXCEPT !.status =
                                           SetScheduleInPlace(@,
                                               ScheduleInfo(activeSchedules', sid, now))]} :
                               Becomes(Say(Publish(W3, "scheduled", "true"),
                                           "Scheduled execution started", "info"))
                         /\ dcaCalls' = [dcaCalls EXCEPT ![i].pc = "returned",
                                                         ![i].result = "success",
                                                         ![i].registered = Append(@, sid)]
            ELSE /\ Becomes(W1)
                 /\ dcaCalls' = rejected
                 /\ UNCHANGED schedVars
    /\ UNCHANGED <<readVars, probe, priceWait, sideVars, cacheVars, rangeCall, rangeLoop, rangeTicks>>

DcaCycleOutcomes == {"success", "failure", "throw"}

\* the trade cycle of call i ends: with the result of the swap, with a
\* failed result of its own, or with a throw
DcaCycleEnds(i, outcome) ==
    /\ dcaCalls[i].pc = "cycle"
    /\ IF outcome = "throw"
       THEN /\ dcaCalls' = [dcaCalls EXCEPT ![i].pc = "rejected"]
            /\ UNCHANGED <<storeVars, tradeVars>>
       ELSE /\ Becomes(IF outcome = "success"
                       THEN Say(Publish(World, "trading_success", "true"),
                                "Trading execution completed successfully", "info")
                       ELSE Say(Publish(World, "trading_error", "false"),
                                "Trading execution failed", "info"))
            /\ dcaCalls' = [dcaCalls EXCEPT ![i].pc = "returned", ![i].result = outcome]
    /\ UNCHANGED <<readVars, schedVars, probe, priceWait, sideVars, cacheVars, rangeCall, rangeLoop,
                   rangeTicks>>

\* the promise of a callback's call has settled: wrappedFunction goes on
DcaComplete(i) ==
    LET call == dcaCalls[i]
    IN  /\ call.eid # 0
        /\ call.pc \in {"returned", "rejected"}
        /\ \E e \in inflight :
              /\ e.eid = call.eid
              /\ CompleteEffect(e, IF call.pc = "rejected" THEN "reject"
                                   ELSE IF call.result = "success" THEN "resolveOk"
                                   ELSE "resolveFail")
        /\ UNCHANGED <<storeVars, readVars, tradeVars, rangeVars>>

\* a timer of the schedule fires: wrappedFunction calls the callback, which
\* runs up to its first await
DcaFire(tm) ==
    /\ IF tm.kind = "interval" THEN IntervalFireEffect(tm, "async")
                               ELSE TimeoutFireEffect(tm, "async")
    /\ Becomes(DcaEnter(World))
    /\ dcaCalls' = CallbackBegins(dcaCalls, tm.sid, nextExecId)
    /\ UNCHANGED <<readVars, probe, priceWait, sideVars, cacheVars, rangeCall, rangeLoop, rangeTicks>>

\* the clock of the driver's specification stops here
MaxDcaTime == 5

\* a second passes, from the user's call on
DcaTick ==
    /\ dcaCalls # <<>>
    /\ now < MaxDcaTime
    /\ Tick

\* what the user passes as scheduleOptions
DcaOptions ==
    {NoOptions,
     IntervalOptions(2, FALSE), IntervalOptions(2, TRUE), IntervalOptions(0, FALSE),
     [IntervalOptions(0, FALSE) EXCEPT !.kind = "string"],
     TimesOptions(<<1>>), TimesOptions(<<>>),
     [IntervalOptions(1, FALSE) EXCEPT !.type = "cron"],
     [IntervalOptions(1, FALSE) EXCEPT !.type = "absent"]}

DcaInit ==
    /\ StoreIdle
    /\ ReadIdle
    /\ SchedIdle
    /\ TradeIdle
    /\ RangeIdle

DcaNext ==
    \/ \E o \in DcaOptions : DcaBaselineFunction(o)
    \/ \E i \in DOMAIN dcaCalls :
          \/ \E threw \in BOOLEAN : DcaWallet(i, threw)
          \/ \E outcome \in DcaCycleOutcomes : DcaCycleEnds(i, outcome)
          \/ DcaComplete(i)
    \/ \E tm \in timers : tm.due = now /\ DcaFire(tm)
    \/ HeartbeatFire
    \/ DcaTick

SpecDca == DcaInit /\ [][DcaNext]_vars

\* C27: the user's call of the DCA driver runs one trade cycle and registers
\* nothing when it has no schedule options; with valid schedule options it
\* registers exactly one schedule, of the type asked for, and runs no cycle
\* itself; every other call of the driver is the callback of a fire of that
\* schedule, has no schedule options, registers nothing and runs at most one
\* cycle.
C27_CycleOrSchedule ==
    dcaCalls # <<>> =>
        LET c == dcaCalls[1]
        IN  /\ c.eid = 0
            /\ c.cycles + Len(c.registered) <= 1
            /\ ~c.options.given =>
                   /\ c.registered = <<>>
                   /\ nextScheduleId = 1 /\ DOMAIN activeSchedules = {} /\ timers = {}
                   /\ Len(dcaCalls) = 1
                   /\ c.pc \in {"cycle", "returned"} => c.cycles = 1
            /\ ValidOptions(c.options) =>
                   /\ c.cycles = 0
                   /\ c.pc # "cycle"
                   /\ c.pc = "returned" =>
                          /\ c.result = "success"
                          /\ c.registered = <<1>>
                          /\ nextScheduleId = 2
                          /\ DOMAIN activeSchedules = {1}
                          /\ activeSchedules[1].type = c.options.type
                          /\ Len(dcaCalls) - 1 = Len(fired[1])
            /\ \A i \in 2..Len(dcaCalls) :
                   /\ dcaCalls[i].eid # 0
                   /\ dcaCalls[i].options = NoOptions
                   /\ dcaCalls[i].registered = <<>>
                   /\ dcaCalls[i].cycles <= 1
                   /\ dcaCalls[i].pc \in {"cycle", "returned"} => dcaCalls[i].cycles = 1

\* the user's call has registered an interval schedule with an immediate
\* start, and the callbacks of two fires have each run a cycle of their own
C27_Witness ==
    /\ Len(dcaCalls) >= 3
    /\ dcaCalls[1].options.type = "interval"
    /\ dcaCalls[1].pc = "returned"
    /\ dcaCalls[1].registered = <<1>>
    /\ dcaCalls[2].result = "success"
    /\ dcaCalls[3].cycles = 1

(***************************************************************************)
(* The execution cycles of both drivers: the immediate call of the DCA     *)
(* driver down to the requests of swap, and the executions of the Range    *)
(* driver.                                                                 *)
(***************************************************************************)
CyclesNext ==
    \/ \E f \in FromTokens, a \in Amounts : BaselineFunction(f, a)
    \/ \E threw \in BOOLEAN : CycleWallet(threw)
    \/ \E o \in PollOutcomes : GatePoll(o)
    \/ GateWake
    \/ \E b \in BalanceReads : CycleBalances(b)
    \/ \E found \in BOOLEAN : CycleTokenLookup(found)
    \/ \E accountExists \in BOOLEAN : CycleAccountCheck(accountExists)
    \/ \E t \in {"found", "notFound", "threw"} : SwapTokens(t)
    \/ \E a \in QuoteAnswers : SwapQuote(a)
    \/ SwapQuoteWake
    \/ \E a \in SwapAnswers : SwapTx(a)
    \/ SwapTxWake
    \/ \E r \in SignResults : SwapSign(r)
    \/ \E c \in Confirmations : SwapConfirm(c)
    \/ RangeNext

SpecCycles == RangeInit /\ [][CyclesNext]_vars

\* the stages a cycle publishes from the return of the gate to the call of swap
PipelineStages ==
    <<"balance_ready", "trading_balance_check", "token_lookup", "account_check", "swapping">>

\* the messages of the log entries from the latest balance_ready on that are
\* stages of the pipeline
StagesSinceGate(messages) ==
    LET isReady(k) == messages[k] = "balance_ready"
        from == IF \E k \in DOMAIN messages : isReady(k)
                THEN CHOOSE k \in DOMAIN messages :
                        isReady(k) /\ \A j \in DOMAIN messages : isReady(j) => j <= k
                ELSE Len(messages) + 1
    IN  SelectSeq(SubSeq(messages, from, Len(messages)),
                  LAMBDA m : \E k \in DOMAIN PipelineStages : PipelineStages[k] = m)

LogMessages == [k \in DOMAIN logs |-> logs[k].message]

\* C28: in a cycle of the DCA driver and in an execution of the Range driver,
\* swap is entered (and the quote service asked) only after the balance gate
\* returned in that cycle with a balance of at least the gate's minimum, and
\* between the gate's return and the swap the stages trading_balance_check,
\* token_lookup, account_check and swapping were published, in this order,
\* each being the snapshot while its step is under way.
C28_GateBeforeSwap ==
    /\ cycle.pc = "swap" \/ (cycle.pc # "idle" /\ swapCall.pc # "idle") =>
           /\ balanceWait.pc = "returned"
           /\ balanceWait.min = CYCLE_MINIMUM_SOL
           /\ balanceWait.result >= CYCLE_MINIMUM_SOL
           /\ StagesSinceGate(LogMessages) = PipelineStages
    /\ cycle.pc # "idle" /\ balanceWait.pc # "returned" =>
           swapCall.pc = "idle" /\ swapCall.quoteRequests = 0
    /\ cycle.pc = "balances" => currentStatus.stage = "trading_balance_check"
    /\ cycle.pc = "tokenLookup" => currentStatus.stage = "token_lookup"
    /\ cycle.pc = "accountCheck" => currentStatus.stage = "account_check"
    /\ \A i \in DOMAIN rangeTicks :
           LET t == rangeTicks[i]
           IN  /\ t.swapCalled =>
                      /\ t.gateReturned
                      /\ t.gateBalance >= CYCLE_MINIMUM_SOL
                      /\ SubSeq(StagesSinceGate(t.stages), 1, 5) = PipelineStages
               /\ t.pc \in {"balances", "tokenLookup", "accountCheck", "swap"} => t.gateReturned

\* a cycle of the DCA driver has asked for a quote after its gate slept and
\* then returned with exactly the minimum
C28_Witness ==
    /\ cycle.pc = "swap"
    /\ swapCall.quoteRequests > 0
    /\ Len(balanceWait.sleeps) > 0
    /\ balanceWait.result = CYCLE_MINIMUM_SOL

(***************************************************************************)
(* Stopping (scheduler.js, stopSchedule and stopAllSchedules) with several *)
(* schedules registered.                                                   *)
(***************************************************************************)
MaxStopSchedules == 2
\* the ids stopSchedule is called with: issued ones, and one never issued
StopIds == 1..(MaxStopSchedules + 1)

\* the clock of the stopping specification stops here
MaxStopTime == 3

StopTick ==
    /\ now < MaxStopTime
    /\ Tick

StopNext ==
    \/ \E imm \in BOOLEAN :
          nextScheduleId <= MaxStopSchedules /\ RegisterInterval(2, imm, "async")
    \/ \E ts \in {<<1>>} : ScheduleTimes(ts)
    \/ \E tm \in timers : IntervalFire(tm, "async")
    \/ \E tm \in timers : TimeoutFire(tm, "async")
    \/ \E e \in inflight, outcome \in Outcomes : Complete(e, outcome)
    \/ \E id \in StopIds : StopSchedule(id)
    \/ StopAllSchedules
    \/ StopTick

SpecStop == SchedInit /\ [][StopNext]_vars

\* C29: stopAllSchedules returns the number of schedules that were in the
\* active set, and leaves the set empty and the heartbeat timer cleared;
\* stopSchedule(id) for an id that is not in the active set (never issued, or
\* stopped before) returns false and leaves the active set and the heartbeat
\* timer as they were.
C29_StopAllAndStopUnknown ==
    /\ [][StopAllSchedules =>
             /\ stopResult' = [count |-> Cardinality(DOMAIN activeSchedules)]
             /\ DOMAIN activeSchedules' = {}
             /\ ~statusUpdateInterval'.armed]_vars
    /\ [][\A id \in StopIds :
             StopSchedule(id) /\ id \notin DOMAIN activeSchedules =>
                /\ stopResult' = [stopped |-> FALSE]
                /\ activeSchedules' = activeSchedules
                /\ statusUpdateInterval' = statusUpdateInterval
                /\ timers' = timers]_vars

\* stopAllSchedules has just stopped two schedules at once
C29_Witness ==
    /\ stopResult = [count |-> 2]
    /\ DOMAIN activeSchedules = {}
    /\ ~statusUpdateInterval.armed
    /\ Cardinality(stoppedIds) = 2
    /\ nextScheduleId = 3

(***************************************************************************)
(* The Custom driver (the generated baselineFunction): the execution type  *)
(* and the dispatch on it.                                                 *)
(***************************************************************************)
\* defaultConfig, by what each key holds
CustomDefaults ==
    [schedule |-> "object", priceMonitoring |-> "object", twitterTrigger |-> "null",
     executionType |-> "undefined"]

\* deepMerge(base, extra) on one key: a key extra does not have keeps its
\* default, two objects merge into an object, anything else replaces
DeepMergeKey(bv, ev) ==
    IF ev = "omitted" THEN bv
    ELSE IF bv = "object" /\ ev = "object" THEN "object"
    ELSE ev
DeepMerge(base, extra) == [k \in DOMAIN base |-> DeepMergeKey(base[k], extra[k])]

\* a value taken as a condition
Truthy(v) == v \notin {"omitted", "undefined", "null", ""}

\* an inference that looks at the schedule before it looks at both
ResolveExecutionTypeScheduleFirst(cfg) ==
    IF Truthy(cfg.executionType) THEN cfg.executionType
    ELSE IF Truthy(cfg.schedule) THEN "scheduled"
    ELSE IF Truthy(cfg.schedule) /\ Truthy(cfg.priceMonitoring) THEN "hybrid"
    ELSE IF Truthy(cfg.priceMonitoring) THEN "price_monitoring"
    ELSE IF Truthy(cfg.twitterTrigger) THEN "twitter_trigger"
    ELSE "immediate"

\* resolveExecutionType(cfg)
ResolveExecutionType(cfg) ==
    IF Truthy(cfg.executionType) THEN cfg.executionType
    ELSE LET hasSchedule == Truthy(cfg.schedule)
             hasPrice == Truthy(cfg.priceMonitoring)
             hasTwitter == Truthy(cfg.twitterTrigger)
         IN  IF hasSchedule /\ hasPrice THEN "hybrid"
             ELSE IF hasSchedule THEN "scheduled"
             ELSE IF hasPrice THEN "price_monitoring"
             ELSE IF hasTwitter THEN "twitter_trigger"
             ELSE "immediate"

\* switch (executionType)
HandlerOf(executionType) ==
    CASE executionType = "hybrid" -> "handleHybridExecution"
      [] executionType = "scheduled" -> "handleScheduledExecution"
      [] executionType = "price_monitoring" -> "handlePriceMonitoring"
      [] executionType = "twitter_trigger" -> "handleTwitterTrigger"
      [] OTHER -> "handleImmediateExecution"

\* baselineFunction(ownerAddress, config) up to await getOrCreateWallet
CustomBaselineFunction ==
    /\ probe.fn = "customDriver"
    /\ probe.pc = "called"
    /\ \E merged \in {DeepMerge(CustomDefaults, probe.config)} :
          probe' = [probe EXCEPT !.merged = merged,
                                 !.executionType = ResolveExecutionType(merged),
                                 !.pc = "wallet"]
    /\ Becomes(Publish(Publish(World, "initializing", "null"), "wallet_init", "null"))
    /\ UNCHANGED <<readVars, schedVars, priceWait, moreVars>>

\* getOrCreateWallet settles: the balance gate, or the catch block, which
\* publishes the error and throws it again
CustomWallet(threw) ==
    /\ probe.fn = "customDriver"
    /\ probe.pc = "wallet"
    /\ IF threw
       THEN /\ Becomes(Say(Publish(World, "error", "false"),
                           "Baseline function failed", "error"))
            /\ probe' = [probe EXCEPT !.pc = "rejected"]
       ELSE /\ Becomes(WaitForBalanceEnter(Say(World, "Wallet ready", "info"),
                                           CYCLE_MINIMUM_SOL))
            /\ probe' = [probe EXCEPT !.pc = "gate"]
    /\ UNCHANGED <<readVars, schedVars, priceWait, moreVars>>

\* waitForBalance has returned: the switch calls a handler
CustomDispatch ==
    /\ probe.fn = "customDriver"
    /\ probe.pc = "gate"
    /\ balanceWait.pc = "returned"
    /\ probe' = [probe EXCEPT !.pc = "handler", !.handler = HandlerOf(probe.executionType)]
    /\ UNCHANGED <<storeVars, readVars, schedVars, tradeVars, priceWait, moreVars>>

\* what a configuration can hold under each key
KeyValues == {"omitted", "null", "object"}
ExecutionTypes ==
    {"omitted", "", "hybrid", "scheduled", "price_monitoring", "twitter_trigger",
     "immediate", "custom"}
CustomConfigs ==
    [schedule : KeyValues, priceMonitoring : KeyValues, twitterTrigger : KeyValues,
     executionType : ExecutionTypes]

CustomInit ==
    /\ StoreIdle
    /\ ReadIdle
    /\ SchedIdle
    /\ TradeIdle
    /\ priceWait = NoPriceWait
    /\ MoreIdle
    /\ \E c \in CustomConfigs :
          probe = [fn |-> "customDriver", config |-> c, merged |-> c,
                   executionType |-> "none", handler |-> "none", pc |-> "called"]

CustomNext ==
    \/ CustomBaselineFunction
    \/ \E threw \in BOOLEAN : CustomWallet(threw)
    \/ \E o \in RangePolls : GatePoll(o)
    \/ GateWake
    \/ CustomDispatch

SpecCustom == CustomInit /\ [][CustomNext]_vars

\* the modes and the handler of each
ModeHandlers ==
    [hybrid |-> "handleHybridExecution", scheduled |-> "handleScheduledExecution",
     price_monitoring |-> "handlePriceMonitoring", twitter_trigger |-> "handleTwitterTrigger",
     immediate |-> "handleImmediateExecution"]

MaxWithdrawals == 2

\* the names bound where the handler is written: the module's imports and
\* top-level constants, createServer's parameters and locals, the handler's
\* own parameters and constants
HandlerScope ==
    {"express", "logger", "getStatus", "dcaBaselineFunction", "rangeBaselineFunction",
     "dotenv", "port", "tradingConfig", "botType", "app", "req", "res",
     "apiKey", "tokenSymbol", "destinationAddress", "amount", "transfer",
     "getOrCreateWallet"}

\* a JavaScript value is truthy (numbers by value, strings by length)
TruthyValue(v) ==
    CASE v.type = "undefined" -> FALSE
      [] v.type = "number" -> v.value # 0
      [] v.type = "string" -> v.length > 0
      [] OTHER -> TRUE

\* req.headers['x-api-key'] || req.body.apiKey
ApiKeyOf(request) ==
    IF request.apiKeyHeader # "absent" THEN request.apiKeyHeader ELSE request.apiKeyBody

\* the response of the checks before the transfer, or none when all pass
Rejection(request) ==
    IF ApiKeyOf(request) = "absent" \/ ApiKeyOf(request) # "API_KEY"
    THEN [status |-> 401, success |-> "false", error |-> "Unauthorized",
          signature |-> "absent"]
    ELSE IF \/ request.tokenSymbol = "absent"
            \/ ~TruthyValue(request.destinationAddress)
            \/ ~TruthyValue(request.amount)
    THEN [status |-> 400, success |-> "false", error |-> "Missing required parameters",
          signature |-> "absent"]
    ELSE IF request.amount.type # "number" \/ request.amount.value <= 0
    THEN [status |-> 400, success |-> "false", error |-> "Amount must be a positive number",
          signature |-> "absent"]
    ELSE IF \/ request.destinationAddress.type # "string"
            \/ request.destinationAddress.length < 32
    THEN [status |-> 400, success |-> "false",
          error |-> "Invalid destination address format", signature |-> "absent"]
    ELSE NoResponse

\* the handler up to its first await: the checks, then the log line and the
\* import of trading.js
WithdrawRequest(request) ==
    /\ withdrawal.pc \in {"idle", "responded"}
    /\ withdrawal.served < MaxWithdrawals
    /\ IF Rejection(request) # NoResponse
       THEN /\ withdrawal' = [withdrawal EXCEPT !.pc = "responded", !.request = request,
                                                !.response = Rejection(request),
                                                !.transfers = 0, !.served = @ + 1]
            /\ UNCHANGED storeVars
       ELSE /\ withdrawal' = [withdrawal EXCEPT !.pc = "imports", !.request = request,
                                                !.response = NoResponse,
                                                !.transfers = 0, !.served = @ + 1]
            /\ \E W \in {Say(World, "API Withdrawal request", "info")} :
                  /\ logs' = W.logs
                  /\ logSeq' = W.seq
                  /\ UNCHANGED currentStatus
    /\ UNCHANGED <<readVars, schedVars, tradeVars, probe, priceWait, cacheVars, driverVars,
                   funds, custom, deployments>>

\* both imports have resolved: getOrCreateWallet(config.ownerAddress) first
\* evaluates its argument, and a name that is not bound throws a
\* ReferenceError before anything is called; the catch block logs and
\* answers 500.  Nothing after this line of the try block is reached.
WithdrawOwner ==
    /\ withdrawal.pc = "imports"
    /\ "config" \notin HandlerScope
    /\ withdrawal' = [withdrawal EXCEPT
                         !.pc = "responded",
                         !.response = [status |-> 500, success |-> "false",
                                       error |-> "API Withdrawal error: config is not defined",
                                       signature |-> "absent"]]
    /\ \E W \in {Say(World, "API Withdrawal error: config is not defined", "error")} :
          /\ logs' = W.logs
          /\ logSeq' = W.seq
          /\ UNCHANGED currentStatus
    /\ UNCHANGED <<readVars, schedVars, tradeVars, probe, priceWait, cacheVars, driverVars,
                   funds, custom, deployments>>

ApiKeys == {"absent", "wrong", "API_KEY"}
WithdrawDestinations ==
    {[type |-> "undefined", value |-> 0, length |-> 0],
     [type |-> "object", value |-> 0, length |-> 32]} \cup
    {[type |-> "string", value |-> 0, length |-> n] : n \in {0, 31, 32, 44}}
WithdrawAmounts ==
    {[type |-> "undefined", value |-> 0, length |-> 0],
     [type |-> "string", value |-> 1, length |-> 1]} \cup
    {[type |-> "number", value |-> v, length |-> 0] : v \in {-1, 0, 1, 2}}
Requests ==
    [apiKeyHeader : ApiKeys, apiKeyBody : {"absent", "API_KEY"},
     tokenSymbol : {"absent", "SOL"}, destinationAddress : WithdrawDestinations, amount : WithdrawAmounts]

WithdrawInit ==
    /\ StoreIdle
    /\ ReadIdle
    /\ SchedIdle
    /\ TradeIdle
    /\ RangeIdle

WithdrawNext ==
    \/ \E request \in Requests : WithdrawRequest(request)
    \/ WithdrawOwner

SpecWithdraw == WithdrawInit /\ [][WithdrawNext]_vars

\* the request of the claim: the correct key, a token symbol, a destination
\* string of at least 32 characters, a positive number
WellFormed(request) ==
    /\ ApiKeyOf(request) = "API_KEY"
    /\ request.tokenSymbol # "absent"
    /\ request.destinationAddress.type = "string"
    /\ request.destinationAddress.length >= 32
    /\ request.amount.type = "number"
    /\ request.amount.value > 0

\* C31: POST /withdraw with the correct API key, a token symbol, a
\* destination address of at least 32 characters and a positive numeric
\* amount performs exactly one transfer of that amount from the agent's
\* wallet to the destination and responds with that transfer's result (the
\* status of a plain res.json, 200).
C31_WithdrawTransfers ==
    (withdrawal.pc = "responded" /\ WellFormed(withdrawal.request)) =>
        /\ withdrawal.transfers = 1
        /\ withdrawal.response.status = 200

(***************************************************************************)
(* Overlapping fires of one schedule, under SpecSched.                     *)
(***************************************************************************)
\* the executions of schedule s whose callback is awaiting
InFlightOf(s) == {e \in inflight : e.sid = s}

\* C32: interval fires do not wait for the previous cycle.  Whenever an
\* execution of an active interval schedule finishes, the schedule's
\* lastExecution becomes the record of that execution, whichever execution
\* started last; so with overlapping executions lastExecution is the record
\* of the one that finished last.
C32_LastFinishedRecorded ==
    [][\A e \in inflight :
          (/\ e \notin inflight'
           /\ e.sid \in DOMAIN activeSchedules'
           /\ activeSchedules'[e.sid].type = "interval")
          => activeSchedules'[e.sid].lastExecution.fire = e.eid]_vars

\* C32 witness: an interval of 1 whose two executions both started and have
\* both finished, the first after 2 seconds and after the second: the record
\* is the first one's
C32_Witness ==
    \E s \in DOMAIN activeSchedules :
        /\ activeSchedules[s].type = "interval"
        /\ activeSchedules[s].intervalMs = 1
        /\ Len(fired[s]) = 2
        /\ nextExecId = 3
        /\ inflight = {}
        /\ activeSchedules[s].lastExecution # Null
        /\ activeSchedules[s].lastExecution.fire = 1
        /\ activeSchedules[s].lastExecution.success = "true"
        /\ activeSchedules[s].lastExecution.duration = 2

(***************************************************************************)
(* SpecSnapshot: every writer of the snapshot, the server's GET /status    *)
(* (server.js) and the exported updateScheduleStatus included.             *)
(***************************************************************************)
\* a schedule info of a daily-time schedule, as getScheduleInfo builds it
TimesScheduleInfo == [id |-> 1, type |-> "times", nextExecution |-> 2]

\* the /status handler's enhancement of a schedule object: it assigns
\* nextExecutionFormatted (and nextExecutionTime for an interval) to it
EnhanceSchedule(schedule, t) ==
    IF schedule = Null THEN schedule
    ELSE IF schedule.type = "interval"
    THEN [id |-> schedule.id, type |-> schedule.type, intervalMs |-> schedule.intervalMs,
          nextExecutionIn |-> schedule.nextExecutionIn,
          nextExecutionFormatted |-> [minutes |-> schedule.nextExecutionIn \div 60,
                                      seconds |-> schedule.nextExecutionIn % 60],
          nextExecutionTime |-> t + schedule.nextExecutionIn]
    ELSE IF schedule.type = "times"
    THEN [id |-> schedule.id, type |-> schedule.type,
          nextExecution |-> schedule.nextExecution,
          nextExecutionFormatted |-> [utc |-> schedule.nextExecution]]
    ELSE schedule

\* GET /status: const currentStatus = getStatus() is the store's own object,
\* so the enhancement is written into the snapshot; the response carries it
StatusRequest ==
    /\ StoreStep
    /\ \E enhanced \in {[currentStatus EXCEPT !.schedule = EnhanceSchedule(@, now)]} :
          /\ currentStatus' = enhanced
          /\ lastRead' = enhanced
    /\ prevRead' = lastRead
    /\ readsSince' = readsSince + 1
    /\ UNCHANGED <<logs, logSeq, lastWritten, schedVars, tradeVars, rangeVars>>

\* updateScheduleStatus(scheduleInfo) of logger.js, called on its own
DoUpdateScheduleStatus(info) ==
    /\ StoreStep
    /\ currentStatus' = SetScheduleInPlace(currentStatus, info)
    /\ readsSince' = 0
    /\ UNCHANGED <<logs, logSeq, lastRead, prevRead, lastWritten, schedVars, tradeVars,
                   rangeVars>>

ScheduleInfos == {Null, SomeScheduleInfo, TimesScheduleInfo}

SnapshotNext ==
    \/ \E level \in Levels : DoLog(level)
    \/ DoClearLogs
    \/ \E success \in Successes, info \in ScheduleInfos, shouldLog \in BOOLEAN :
          DoUpdateStatus("executing", success, info, shouldLog)
    \/ DoResetStatus
    \/ DoGetStatus
    \/ StatusRequest
    \/ \E info \in ScheduleInfos \ {Null} : DoUpdateScheduleStatus(info)
    \/ DoRegisterTail
    \/ StoreTick

SpecSnapshot == StoreInit /\ [][SnapshotNext]_vars

\* a step that publishes or resets: the recorded arguments change (each
\* publish carries its own details)
Publishes == lastWritten' # lastWritten

\* the log is only appended to, apart from the eviction of the oldest entry
\* and clearLogs
LogAppendOnly ==
    \/ logs' = logs
    \/ logs' = <<>>
    \/ /\ Len(logs') = Len(logs) + 1
       /\ SubSeq(logs', 1, Len(logs)) = logs
    \/ /\ Len(logs) = MAX_LOGS
       /\ Len(logs') = MAX_LOGS
       /\ SubSeq(logs', 1, MAX_LOGS - 1) = Tail(logs)

SnapshotFields == {"stage", "timestamp", "success", "details"}

\* C33 as claimed: every write of the snapshot is a whole-object
\* replacement: after a publish the snapshot consists of exactly the
\* published values and nothing of the previous snapshot, and no operation
\* modifies a field of the current snapshot in place; the log is only
\* appended to, apart from eviction and clearLogs.
C33_WholeObjectOnly ==
    [][/\ Publishes => currentStatus' = lastWritten'
       /\ ~Publishes => currentStatus' = currentStatus
       /\ LogAppendOnly]_vars

\* C33 as amended: a publish or reset replaces the whole snapshot; without
\* one, stage, timestamp, success and details stay as published and only the
\* schedule field is written in place (updateScheduleStatus, GET /status);
\* the log is only appended to, apart from eviction and clearLogs.
C33_PublishReplaces ==
    [][/\ Publishes => currentStatus' = lastWritten'
       /\ ~Publishes => \A f \in SnapshotFields : currentStatus'[f] = currentStatus[f]
       /\ LogAppendOnly]_vars

\* C33 witness: GET /status has written its formatted fields into the
\* snapshot's schedule, and the publish after it has left nothing of them
C33_Witness ==
    /\ lastRead # Null
    /\ lastRead.schedule # Null
    /\ "nextExecutionTime" \in DOMAIN lastRead.schedule
    /\ lastRead.schedule.nextExecutionFormatted = [minutes |-> 0, seconds |-> 1]
    /\ readsSince = 0
    /\ currentStatus = lastWritten
    /\ currentStatus.schedule = Null
    /\ currentStatus.stage = "executing"

(***************************************************************************)
(* Error categories of swap results, under SpecTrade.                      *)
(***************************************************************************)
\* the substrings in the order of the claim, and the category of each
CategoryWords == <<"insufficient", "slippage", "timeout", "route">>
Categories == <<"insufficient_funds", "slippage_exceeded", "timeout", "no_route">>
\* the positions of the substrings a text contains
Matches(words) == {i \in 1..Len(CategoryWords) : CategoryWords[i] \in words}

\* C34: every failed swap result carries exactly one errorCategory, the one
\* of the first of "insufficient", "slippage", "timeout", "route" its error
\* text contains, and unknown when it contains none; a swap that failed on a
\* quote without a valid route is classified no_route; a successful result
\* carries no errorCategory.
C34_FirstMatchCategory ==
    swapCall.pc = "done" =>
       LET result == swapCall.result
           found == Matches(result.error.words)
       IN  /\ result.success = "true" => result.errorCategory = "absent"
           /\ result.success = "false" =>
                 /\ found = {} => result.errorCategory = "unknown"
                 /\ found # {} =>
                       \E i \in found :
                          /\ \A j \in found : i <= j
                          /\ result.errorCategory = Categories[i]
                 /\ (/\ swapCall.swapRequests = 0
                     /\ swapCall.quoteAnswers # <<>>
                     /\ swapCall.quoteAnswers[Len(swapCall.quoteAnswers)]
                           \in {"zeroOut", "noOut"})
                    => result.errorCategory = "no_route"

\* C34 witness: a swap failed on an upstream text that contains both
\* "timeout" and "route" and is classified timeout
C34_Witness ==
    /\ swapCall.pc = "done"
    /\ swapCall.result.success = "false"
    /\ swapCall.result.error.words = {"timeout", "route"}
    /\ swapCall.result.errorCategory = "timeout"

(***************************************************************************)
(* The sign-and-broadcast request of swap, under SpecTrade.                *)
(***************************************************************************)
\* the answers but the last
Front(answers) == SubSeq(answers, 1, Len(answers) - 1)

\* C35: one swap call makes at most one sign-and-broadcast request, and only
\* after a quote and then a swap transaction for that quote were obtained
\* (the last answer of each loop is the one success of that loop); whatever
\* signing, broadcasting or confirming does, no second request follows.
C35_AtMostOneBroadcast ==
    /\ swapCall.signRequests <= 1
    /\ swapCall.signRequests = 1 =>
          /\ swapCall.quoteAnswers # <<>>
          /\ swapCall.quoteAnswers[Len(swapCall.quoteAnswers)] = "ok"
          /\ \A i \in DOMAIN Front(swapCall.quoteAnswers) : swapCall.quoteAnswers[i] # "ok"
          /\ swapCall.swapAnswers # <<>>
          /\ swapCall.swapAnswers[Len(swapCall.swapAnswers)] = "ok"
          /\ \A i \in DOMAIN Front(swapCall.swapAnswers) : swapCall.swapAnswers[i] # "ok"
          /\ swapCall.pc \in {"sign", "confirm", "done"}
    /\ swapCall.hash # "absent" => swapCall.signRequests = 1

\* C35 witness: signAndSendTransaction threw and the call has ended in a
\* failure after its one request, with retries left (maxRetries 3, one
\* attempt used in each loop)
C35_Witness ==
    /\ swapCall.pc = "done"
    /\ swapCall.maxRetries = 3
    /\ swapCall.quoteRequests = 1
    /\ swapCall.swapRequests = 1
    /\ swapCall.signRequests = 1
    /\ swapCall.hash = "absent"
    /\ swapCall.result.success = "false"

(***************************************************************************)
(* The chain of a daily-time schedule, under SpecSched.                    *)
(***************************************************************************)
\* the executions of daily-time schedule s whose callback is awaiting
ChainInFlight(s) == {e \in inflight : e.sid = s /\ e.chain}
\* the armed timeouts of schedule s
TimeoutsOf(s) == {tm \in timers : tm.sid = s /\ tm.kind = "timeout"}

\* at most one execution of a daily-time schedule is in flight, at most one
\* timeout of it is armed, and none while an execution is in flight
ChainSingle ==
    \A s \in 1..(nextScheduleId - 1) :
        /\ Cardinality(ChainInFlight(s)) <= 1
        /\ Cardinality(TimeoutsOf(s)) <= 1
        /\ ChainInFlight(s) # {} => TimeoutsOf(s) = {}

\* C36: fires of one daily-time schedule never overlap: the next fire is
\* armed only after the current callback has completed, so at most one
\* execution of the schedule is in flight at any time; a timeout is armed
\* for a moment after its arming, so a configured time that has passed
\* while an execution was in flight produces no fire that day.
C36_ChainNeverOverlaps ==
    /\ []ChainSingle
    /\ [][/\ \A e \in inflight' \ inflight : e.chain => ChainInFlight(e.sid) = {}
          /\ \A tm \in timers' \ timers : tm.kind = "timeout" => tm.due > now]_vars

\* C36 witness: the schedule with times 1 and 3 of a day of 4 fired at 1, its
\* execution was in flight until 3, and the next fire is armed for 1 of the
\* next day: no fire at 3
C36_Witness ==
    \E s \in DOMAIN activeSchedules :
        /\ activeSchedules[s].type = "times"
        /\ fired[s] = <<[at |-> 1, by |-> "timer"]>>
        /\ activeSchedules[s].lastExecution # Null
        /\ activeSchedules[s].lastExecution.success = "true"
        /\ activeSchedules[s].lastExecution.duration = 2
        /\ inflight = {}
        /\ now = 3
        /\ \E tm \in TimeoutsOf(s) : tm.times = <<1, 3>> /\ tm.due = DayLen + 1

(***************************************************************************)
(* The balance gate under an interval schedule of the DCA driver: every    *)
(* callback of the schedule runs its own waitForBalance against the same   *)
(* wallet.                                                                 *)
(***************************************************************************)

\* the store and one call of baselineFunction, taken together
CallWorld(i) == [world |-> World, call |-> dcaCalls[i]]
CallPublish(S, stage, success) == [S EXCEPT !.world = Publish(S.world, stage, success)]
CallSay(S, message, level) == [S EXCEPT !.world = Say(S.world, message, level)]
CallBecomes(S, i) ==
    /\ Becomes(S.world)
    /\ dcaCalls' = [dcaCalls EXCEPT ![i] = S.call]

\* a gate that gives up after a poll that shows too little
DcaAfterPollGivingUp(S, o, t) ==
    LET S0 == [S EXCEPT !.call.polls = @ + 1]
    IN  IF ~o.threw /\ GateSufficient(CurrentBalance(o), CYCLE_MINIMUM_SOL)
        THEN [CallPublish(S0, "trading_balance_check", "null") EXCEPT !.call.pc = "balances"]
        ELSE [CallPublish(S0, "trading_error", "false") EXCEPT
                 !.call.pc = "returned", !.call.result = "failure"]

\* one turn of the while (true) of waitForBalance inside call i, from the
\* settling of getBalances on; a return of waitForBalance goes on in
\* baselineFunction up to its own await getBalances
DcaAfterPoll(S, o, t) ==
    LET S0 == [S EXCEPT !.call.polls = @ + 1]
        sleep(X) == [X EXCEPT !.call.pc = "gateSleep", !.call.wake = t + BALANCE_SLEEP_S]
    IN  IF o.threw
        THEN sleep(CallSay(CallPublish([S0 EXCEPT !.call.pollErrors = @ + 1],
                                       "balance_error", "false"),
                           "Error checking balance", "error"))
        ELSE LET S1 == CallSay(S0, "All balances:", "json")
             IN  IF GateSufficient(CurrentBalance(o), CYCLE_MINIMUM_SOL)
                 THEN LET S2 == CallSay(CallPublish(S1, "balance_ready", "true"),
                                        "Wallet balance ready", "info")
                          S3 == CallSay(CallPublish(S2, "trading_balance_check", "null"),
                                        "Checking wallet balances for trading", "info")
                      IN  [S3 EXCEPT !.call.pc = "balances"]
                 ELSE sleep(CallSay(CallPublish(S1, "balance_insufficient", "null"),
                                    "Insufficient balance", "info"))

\* what getBalances shows of the wallet's SOL
FundsPoll(f, threw) ==
    IF threw THEN [threw |-> TRUE, hasSol |-> FALSE, sol |-> 0]
    ELSE [threw |-> FALSE, hasSol |-> f.sol > 0, sol |-> f.sol]

\* getBalances settles inside the waitForBalance of call i
DcaGatePoll(i, threw) ==
    /\ dcaCalls[i].pc = "cycle"
    /\ \E S \in {DcaAfterPoll(CallWorld(i), FundsPoll(funds, threw), now)} : CallBecomes(S, i)
    /\ UNCHANGED <<readVars, schedVars, probe, priceWait, sideVars, cacheVars, rangeCall, rangeLoop,
                   rangeTicks>>

\* the 60 seconds of a sleep of waitForBalance are over in call i
DcaGateWake(i) ==
    /\ dcaCalls[i].pc = "gateSleep"
    /\ dcaCalls[i].wake = now
    /\ dcaCalls' = [dcaCalls EXCEPT ![i].pc = "cycle"]
    /\ UNCHANGED <<storeVars, readVars, schedVars, tradeVars, probe, priceWait, sideVars, cacheVars,
                   rangeCall, rangeLoop, rangeTicks>>

PreparationOutcomes == {"ready", "failure", "throw"}

\* the checks of call i between the gate and the swap have been made: the
\* balance of fromToken, the lookup of toToken, the account check and the SOL
\* for the fees.  When all of them pass, the call publishes and calls swap.
DcaPreparation(i, outcome) ==
    /\ dcaCalls[i].pc = "balances"
    /\ IF outcome = "throw"
       THEN /\ dcaCalls' = [dcaCalls EXCEPT ![i].pc = "rejected"]
            /\ UNCHANGED <<storeVars, tradeVars>>
       ELSE IF outcome = "failure"
       THEN /\ Becomes(Say(Publish(World, "trading_error", "false"),
                           "Trading cannot go on", "info"))
            /\ dcaCalls' = [dcaCalls EXCEPT ![i].pc = "returned", ![i].result = "failure"]
       ELSE /\ Becomes(Say(Say(Publish(World, "swapping", "null"), "Executing swap", "info"),
                           "Using 1.5% slippage tolerance with auto priority fees", "info"))
            /\ dcaCalls' = [dcaCalls EXCEPT ![i].pc = "swap", ![i].swaps = @ + 1]
    /\ UNCHANGED <<readVars, schedVars, probe, priceWait, sideVars, cacheVars, rangeCall, rangeLoop,
                   rangeTicks>>

\* swap returns its result to call i
DcaSwapReturns(i, succeeded) ==
    /\ dcaCalls[i].pc = "swap"
    /\ Becomes(IF succeeded
               THEN Say(Publish(World, "trading_success", "true"),
                        "Trading execution completed successfully", "info")
               ELSE Say(Publish(World, "trading_error", "false"),
                        "Trading execution failed", "info"))
    /\ dcaCalls' = [dcaCalls EXCEPT ![i].pc = "returned",
                                    ![i].result = IF succeeded THEN "success" ELSE "failure"]
    /\ UNCHANGED <<readVars, schedVars, probe, priceWait, sideVars, cacheVars, rangeCall, rangeLoop,
                   rangeTicks>>

\* the clock of the gate's specification stops here
MaxGateTime == 150
\* how often the wallet is topped up
MaxDeposits == 1

\* somebody sends SOL to the agent's wallet
Deposit(amount) ==
    /\ funds.deposits < MaxDeposits
    /\ funds' = [sol |-> funds.sol + amount, deposits |-> funds.deposits + 1]
    /\ UNCHANGED <<storeVars, readVars, schedVars, tradeVars, probe, priceWait, cacheVars,
                   driverVars, withdrawal, custom,
                   deployments>>

\* the moments at which a timer is due
GateDues ==
    {tm.due : tm \in timers} \cup
    (IF statusUpdateInterval.armed THEN {statusUpdateInterval.due} ELSE {}) \cup
    {dcaCalls[i].wake : i \in {j \in DOMAIN dcaCalls : dcaCalls[j].pc = "gateSleep"}}

\* a call that awaits the answer of a service, or whose promise has settled
\* and whose wrapper has not gone on yet
CallAwaits(c) ==
    \/ c.pc \in {"wallet", "cycle", "balances", "swap"}
    \/ c.pc \in {"returned", "rejected"} /\ \E e \in inflight : e.eid = c.eid

\* time passes up to the next moment at which a timer is due; the services
\* answer within the second, so a callback outlasts the interval only by the
\* sleeps of the balance gate
GateAdvance ==
    /\ GateDues # {}
    /\ now \notin GateDues
    /\ \A i \in DOMAIN dcaCalls : ~CallAwaits(dcaCalls[i])
    /\ now' = Least(GateDues)
    /\ now' <= MaxGateTime
    /\ UNCHANGED <<storeVars, readVars, timerVars, tradeVars, rangeVars>>

QueueInit ==
    /\ StoreIdle
    /\ ReadIdle
    /\ SchedIdle
    /\ TradeIdle
    /\ RangeIdle

\* the schedule the user asks for: an interval shorter than a sleep of the
\* gate, and such that no two callbacks are served in the same second
GateOptions == {IntervalOptions(42, FALSE)}
\* what a deposit adds: less than the minimum of the gate, or the minimum
DepositAmounts == {CYCLE_MINIMUM_SOL - 1, CYCLE_MINIMUM_SOL}

QueueNext ==
    \/ \E o \in GateOptions : DcaBaselineFunction(o)
    \/ \E i \in DOMAIN dcaCalls :
          \/ \E threw \in BOOLEAN : DcaWallet(i, threw)
          \/ \E threw \in BOOLEAN : DcaGatePoll(i, threw)
          \/ DcaGateWake(i)
          \/ \E outcome \in PreparationOutcomes : DcaPreparation(i, outcome)
          \/ \E succeeded \in BOOLEAN : DcaSwapReturns(i, succeeded)
          \/ DcaComplete(i)
    \/ \E tm \in timers : tm.due = now /\ DcaFire(tm)
    \/ \E amount \in DepositAmounts : Deposit(amount)
    \/ HeartbeatFire
    \/ GateAdvance

SpecWaiting == QueueInit /\ [][QueueNext]_vars

\* a callback's call that is in the balance gate, or on its way to it
InGate(c) == c.pc \in {"wallet", "cycle", "gateSleep"}

GateHolds ==
    dcaCalls # <<>> =>
        /\ Len(dcaCalls) - 1 = Len(fired[1])
        /\ \A i \in 2..Len(dcaCalls) :
              LET c == dcaCalls[i]
              IN  /\ c.eid = i - 1
                  /\ c.swaps <= 1
                  /\ c.pc = "swap" => c.swaps = 1
                  /\ (c.pc = "returned" /\ c.result = "success") => c.swaps = 1
                  /\ ~GateSufficient(funds.sol, CYCLE_MINIMUM_SOL) =>
                         /\ c.swaps = 0
                         /\ InGate(c) \/ (c.pc = "rejected" /\ c.polls = 0)

\* C37: under an interval schedule of the DCA driver every fire starts a
\* further trade cycle whatever the earlier ones are doing; while the wallet
\* holds less than the minimum of the gate every one of these cycles stays in
\* its own waitForBalance, and no swap is called; a poll that shows the
\* minimum lets the polling cycle through, whichever other cycles wait, and
\* every cycle that got through and passed its checks calls swap itself, once.
C37_WaitingCyclesAllPass ==
    /\ []GateHolds
    /\ [][/\ Len(dcaCalls') > Len(dcaCalls) =>
                \A i \in DOMAIN dcaCalls : dcaCalls'[i] = dcaCalls[i]
          /\ \A i \in DOMAIN dcaCalls :
                LET c == dcaCalls[i]
                    d == dcaCalls'[i]
                IN  /\ (c.pc = "cycle" /\ d.pc # "cycle") =>
                           /\ d.polls = c.polls + 1
                           /\ \A j \in DOMAIN dcaCalls \ {i} : dcaCalls'[j] = dcaCalls[j]
                           /\ IF GateSufficient(funds.sol, CYCLE_MINIMUM_SOL)
                                 /\ d.pollErrors = c.pollErrors
                              THEN d.pc = "balances"
                              ELSE d.pc = "gateSleep" /\ d.wake = now + BALANCE_SLEEP_S
                    /\ (c.pc = "balances" /\ d.pc = "swap") => d.swaps = c.swaps + 1
                    /\ d.swaps # c.swaps => c.pc = "balances" /\ d.pc = "swap"]_vars

\* two callbacks of the schedule have both polled a wallet that held too
\* little, the wallet was topped up once, and each of them has got through
\* the gate and called swap for itself
C37_Witness ==
    /\ Len(dcaCalls) >= 3
    /\ dcaCalls[1].options.type = "interval"
    /\ funds.deposits = 1
    /\ funds.sol = CYCLE_MINIMUM_SOL
    /\ dcaCalls[2].polls = 2 /\ dcaCalls[2].swaps = 1 /\ dcaCalls[2].result = "success"
    /\ dcaCalls[3].polls = 2 /\ dcaCalls[3].swaps = 1 /\ dcaCalls[3].pc = "swap"
    /\ Cardinality(inflight) = 1

(***************************************************************************)
(* Fires and registrations: the callbacks the DCA driver and the Custom    *)
(* driver hand to the scheduler, and what a fire of them does to the set   *)
(* of schedules.                                                           *)
(***************************************************************************)

\* a callback that leaves the execution type to be inferred
CustomCallbackConfigBare ==
    [schedule |-> "omitted", priceMonitoring |-> "omitted", twitterTrigger |-> "omitted",
     executionType |-> "omitted"]
\* executionFunction = () => baselineFunction(ownerAddress,
\*     {fromToken, toToken, amount, executionType: 'immediate'})
CustomCallbackConfig ==
    [schedule |-> "omitted", priceMonitoring |-> "omitted", twitterTrigger |-> "omitted",
     executionType |-> "immediate"]

\* a call of the Custom driver's baselineFunction at its first await; eid is
\* 0 for the user's call and the execution of the schedule for a callback's
NewCustomCall(eid, config) ==
    [eid |-> eid, config |-> config,
     executionType |-> ResolveExecutionType(DeepMerge(CustomDefaults, config)),
     pc |-> "wallet", handler |-> "none", registered |-> <<>>, result |-> "none"]

\* the callback of handleHybridExecution at its first await, the price check
NewHybridCallback(eid) ==
    [eid |-> eid, config |-> CustomCallbackConfig, executionType |-> "none",
     pc |-> "hybridPrice", handler |-> "none", registered |-> <<>>, result |-> "none"]

\* baselineFunction(ownerAddress, config) up to await getOrCreateWallet
CustomEnter(W) == Publish(Publish(W, "initializing", "null"), "wallet_init", "null")

NothingCustom == NothingInProgress /\ custom = NoCustom

\* baselineFunction(ownerAddress, config) of the Custom driver, called by the
\* user
CustomStart(config) ==
    /\ NothingCustom
    /\ Becomes(CustomEnter(World))
    /\ custom' = [custom EXCEPT !.calls = <<NewCustomCall(0, config)>>]
    /\ UNCHANGED <<readVars, schedVars, probe, priceWait, cacheVars, driverVars, withdrawal,
                   funds, deployments>>

\* createScheduledExecution(ownerAddress, fromToken, toToken, amount,
\* scheduleOptions) of the Custom driver's library, called by the user's code
CustomCreateScheduledExecution(o) ==
    LET sid == nextScheduleId
        noted == <<[sid |-> sid, callback |-> "executionFunction", by |-> 0]>>
    IN
    /\ NothingCustom
    /\ IF o.type = "interval" /\ IntervalUsable(o)
       THEN /\ RegisterIntervalEffect(o.n, o.executeImmediately, "async")
            /\ Becomes(Say(IF o.executeImmediately THEN CustomEnter(World) ELSE World,
                           "Created schedule", "info"))
            /\ custom' = [schedules |-> noted,
                          calls |-> IF o.executeImmediately
                                    THEN <<NewCustomCall(nextExecId, CustomCallbackConfig)>>
                                    ELSE <<>>]
       ELSE /\ o.type = "times" /\ o.kind = "list" /\ WellFormedTimes(o.times)
            /\ ScheduleTimesEffect(o.times)
            /\ Becomes(Say(World, "Created schedule", "info"))
            /\ custom' = [schedules |-> noted, calls |-> <<>>]
    /\ UNCHANGED <<readVars, probe, priceWait, cacheVars, driverVars, withdrawal, funds,
                   deployments>>

\* the callback a schedule of the Custom driver was registered with
CallbackOf(c, sid) ==
    (CHOOSE k \in {c.schedules[j] : j \in DOMAIN c.schedules} : k.sid = sid).callback

\* a timer of a schedule of the Custom driver fires: wrappedFunction calls
\* the callback, which runs up to its first await
CustomFire(tm) ==
    /\ \E j \in DOMAIN custom.schedules : custom.schedules[j].sid = tm.sid
    /\ IF tm.kind = "interval" THEN IntervalFireEffect(tm, "async")
                               ELSE TimeoutFireEffect(tm, "async")
    /\ IF CallbackOf(custom, tm.sid) = "executionFunction"
       THEN /\ Becomes(CustomEnter(World))
            /\ custom' = [custom EXCEPT
                             !.calls = Append(@, NewCustomCall(nextExecId,
                                                               CustomCallbackConfig))]
       ELSE /\ custom' = [custom EXCEPT !.calls = Append(@, NewHybridCallback(nextExecId))]
            /\ UNCHANGED <<storeVars, tradeVars>>
    /\ UNCHANGED <<readVars, probe, priceWait, cacheVars, driverVars, withdrawal, funds,
                   deployments>>

\* getOrCreateWallet settles in call i: waitForBalance up to its first poll,
\* or the catch block, which publishes the error and throws it again
CustomCallWallet(i, threw) ==
    /\ custom.calls[i].pc = "wallet"
    /\ IF threw
       THEN /\ Becomes(Say(Publish(World, "error", "false"),
                           "Baseline function failed", "error"))
            /\ custom' = [custom EXCEPT !.calls[i].pc = "rejected"]
       ELSE /\ Becomes(Publish(Say(World, "Wallet ready", "info"), "balance_check", "null"))
            /\ custom' = [custom EXCEPT !.calls[i].pc = "gate"]
    /\ UNCHANGED <<readVars, schedVars, probe, priceWait, cacheVars, driverVars, withdrawal,
                   funds, deployments>>

\* what the user's configuration says of the schedule of a hybrid strategy
HybridSchedules == {[n |-> 2, executeImmediately |-> b] : b \in BOOLEAN}

\* a poll of waitForBalance shows the minimum in call i: the gate returns and
\* the switch calls the handler of the execution type.  handleHybridExecution
\* registers an interval schedule with a callback of its own; the immediate
\* handler publishes and returns; the other handlers return.
CustomCallGate(i, h) ==
    LET call == custom.calls[i]
        handler == HandlerOf(call.executionType)
        sid == nextScheduleId
        ready == Say(Publish(Say(World, "All balances:", "json"), "balance_ready", "true"),
                     "Wallet balance ready", "info")
        returned == [custom EXCEPT !.calls[i].pc = "returned",
                                   !.calls[i].handler = handler,
                                   !.calls[i].result = "success"]
    IN
    /\ call.pc = "gate"
    /\ IF handler = "handleHybridExecution"
       THEN /\ RegisterIntervalEffect(h.n, h.executeImmediately, "async")
            /\ Becomes(Say(Publish(Publish(ready, "scheduling", "null"), "scheduled", "true"),
                           "Hybrid schedule started", "info"))
            /\ \E c \in {[returned EXCEPT
                             !.calls[i].registered = Append(@, sid),
                             !.schedules = Append(@, [sid |-> sid, callback |-> "hybrid",
                                                      by |-> call.eid])]} :
                  custom' = IF h.executeImmediately
                            THEN [c EXCEPT !.calls = Append(@, NewHybridCallback(nextExecId))]
                            ELSE c
       ELSE /\ Becomes(IF handler = "handleImmediateExecution"
                       THEN Publish(Say(Publish(ready, "executing", "null"),
                                        "Immediate trade", "info"),
                                    "completed", "true")
                       ELSE ready)
            /\ custom' = returned
            /\ UNCHANGED schedVars
    /\ UNCHANGED <<readVars, probe, priceWait, cacheVars, driverVars, withdrawal, funds,
                   deployments>>

HybridOutcomes == {"priceFailed", "notMet", "traded", "tradeFailed"}

\* the callback of the hybrid schedule runs to its end: the price check, and
\* the trade when the condition is met; it catches what is thrown
HybridCallbackEnds(i, outcome) ==
    /\ custom.calls[i].pc = "hybridPrice"
    /\ Becomes(CASE outcome = "priceFailed" -> Say(World, "Price check failed", "error")
                 [] outcome = "notMet" ->
                        Say(Say(World, "price", "info"), "Condition not met", "info")
                 [] outcome = "traded" ->
                        Say(Publish(Publish(Say(World, "price", "info"), "executing", "null"),
                                    "completed", "true"), "Trade successful", "info")
                 [] OTHER ->
                        Say(Publish(Publish(Say(World, "price", "info"), "executing", "null"),
                                    "error", "false"), "Trade failed", "error"))
    /\ custom' = [custom EXCEPT !.calls[i].pc = "returned", !.calls[i].result = "undefined"]
    /\ UNCHANGED <<readVars, schedVars, probe, priceWait, cacheVars, driverVars, withdrawal,
                   funds, deployments>>

\* the promise of a callback's call has settled: wrappedFunction goes on
CustomComplete(i) ==
    LET call == custom.calls[i]
    IN  /\ call.eid # 0
        /\ call.pc \in {"returned", "rejected"}
        /\ \E e \in inflight :
              /\ e.eid = call.eid
              /\ CompleteEffect(e, IF call.pc = "rejected" THEN "reject"
                                   ELSE IF call.result = "success" THEN "resolveOk"
                                   ELSE "resolveFail")
        /\ UNCHANGED <<storeVars, readVars, tradeVars, rangeVars>>

\* the clock of this specification stops here
MaxFiresTime == 5

\* a second passes, from the user's call on
FiresTick ==
    /\ dcaCalls # <<>> \/ custom # NoCustom
    /\ now < MaxFiresTime
    /\ Tick

FiresInit ==
    /\ StoreIdle
    /\ ReadIdle
    /\ SchedIdle
    /\ TradeIdle
    /\ RangeIdle

\* what the user passes to the drivers
FiresDcaOptions == {IntervalOptions(2, TRUE), TimesOptions(<<1>>)}
FiresCustomOptions == {IntervalOptions(2, FALSE), IntervalOptions(2, TRUE), TimesOptions(<<1>>)}
FiresCustomConfigs ==
    {c \in CustomConfigs : /\ c.executionType \in {"omitted", "immediate"}
                           /\ c.twitterTrigger = "omitted"
                           /\ c.schedule \in {"omitted", "null"}
                           /\ c.priceMonitoring \in {"omitted", "null"}}

FiresNext ==
    \/ \E o \in FiresDcaOptions : custom = NoCustom /\ DcaBaselineFunction(o)
    \/ \E i \in DOMAIN dcaCalls :
          \/ DcaWallet(i, FALSE)
          \/ \E outcome \in DcaCycleOutcomes : DcaCycleEnds(i, outcome)
          \/ DcaComplete(i)
    \/ \E tm \in timers : tm.due = now /\ dcaCalls # <<>> /\ DcaFire(tm)
    \/ \E c \in FiresCustomConfigs : CustomStart(c)
    \/ \E o \in FiresCustomOptions : CustomCreateScheduledExecution(o)
    \/ \E i \in DOMAIN custom.calls :
          \/ \E threw \in BOOLEAN : CustomCallWallet(i, threw)
          \/ \E h \in HybridSchedules : CustomCallGate(i, h)
          \/ \E outcome \in HybridOutcomes : HybridCallbackEnds(i, outcome)
          \/ CustomComplete(i)
    \/ \E tm \in timers : tm.due = now /\ CustomFire(tm)
    \/ \E id \in DOMAIN activeSchedules : StopSchedule(id)
    \/ DOMAIN activeSchedules # {} /\ StopAllSchedules
    \/ HeartbeatFire
    \/ FiresTick

SpecFires == FiresInit /\ [][FiresNext]_vars

\* what the calls made by callbacks look like, and how many schedules there are
CallbacksImmediate ==
    /\ \A i \in DOMAIN dcaCalls :
          dcaCalls[i].eid # 0 =>
             /\ dcaCalls[i].options = NoOptions
             /\ dcaCalls[i].registered = <<>>
    /\ \A i \in DOMAIN custom.calls :
          LET c == custom.calls[i]
          IN  c.eid # 0 =>
                 /\ c.registered = <<>>
                 /\ c.pc # "hybridPrice" /\ c.executionType # "none" =>
                        /\ c.executionType = "immediate"
                        /\ c.handler \in {"none", "handleImmediateExecution"}
    /\ \A j \in DOMAIN custom.schedules : custom.schedules[j].by = 0
    /\ nextScheduleId <= 2
    /\ DOMAIN activeSchedules \subseteq {1}

\* C38: a fire of a schedule registers no schedule.  The callbacks the DCA
\* driver and the Custom driver's createScheduledExecution hand to the
\* scheduler call the driver without schedule options, respectively with the
\* execution type 'immediate'; a schedule id is given out only in a step of
\* the user's own call, the set of active ids changes only there and in
\* stopSchedule / stopAllSchedules, and neither a fire nor the end of a
\* callback changes it, however many fires there are.
C38_FiresRegisterNothing ==
    /\ []CallbacksImmediate
    /\ [][/\ nextScheduleId' # nextScheduleId =>
                \/ /\ dcaCalls # <<>>
                   /\ dcaCalls[1].eid = 0
                   /\ dcaCalls'[1].registered # dcaCalls[1].registered
                \/ /\ Len(custom'.schedules) = Len(custom.schedules) + 1
                   /\ custom'.schedules[Len(custom'.schedules)].by = 0
          /\ DOMAIN activeSchedules' # DOMAIN activeSchedules =>
                \/ nextScheduleId' # nextScheduleId
                \/ /\ DOMAIN activeSchedules' \subseteq DOMAIN activeSchedules
                   /\ stoppedIds' # stoppedIds
          /\ (nextScheduleId' = nextScheduleId /\ (fired' # fired \/ inflight' # inflight)) =>
                DOMAIN activeSchedules' = DOMAIN activeSchedules]_vars

\* a schedule made by the Custom driver's createScheduledExecution has fired
\* twice; both callbacks went through the immediate handler, and schedule 1
\* is still the only one
C38_Witness ==
    /\ Len(custom.schedules) = 1
    /\ custom.schedules[1].callback = "executionFunction"
    /\ Len(fired[1]) = 2
    /\ Len(custom.calls) = 2
    /\ \A i \in 1..2 : /\ custom.calls[i].eid = i
                       /\ custom.calls[i].pc = "returned"
                       /\ custom.calls[i].handler = "handleImmediateExecution"
    /\ inflight = {}
    /\ nextScheduleId = 2
    /\ DOMAIN activeSchedules = {1}

(***************************************************************************)
(* The Range driver and the Scheduler: the monitoring interval of the      *)
(* driver against getScheduleInfo and stopAllSchedules.                    *)
(***************************************************************************)

\* getScheduleInfo(): one entry for every schedule in the Map
GetScheduleInfo(m, t) == {ScheduleInfo(m, s, t) : s \in DOMAIN m}

\* what the services deliver in this specification: a price on either side
\* of the target, a wallet below or at the minimum of the gate, enough of
\* fromToken
LoopPrices == {r \in RangePrices : r.shape = "number"}
LoopPolls == {o \in RangePolls : ~o.threw}
LoopReads == {b \in RangeReads : ~b.threw /\ b.hasToken /\ b.uiAmount = 30}

LoopInit ==
    /\ StoreIdle
    /\ ReadIdle
    /\ SchedIdle
    /\ TradeIdle
    /\ RangeIdle

LoopNext ==
    \/ \E monitor \in BOOLEAN : RangeBaselineFunction("USDC", 10, monitor, 100, TRUE)
    \/ \E threw \in BOOLEAN : RangeWallet(threw)
    \/ RangeIntervalFire
    \/ \E i \in DOMAIN rangeTicks :
          \/ \E r \in LoopPrices : RangeTickPrice(i, r)
          \/ \E o \in LoopPolls : RangeTickPoll(i, o)
          \/ RangeTickWake(i)
          \/ \E b \in LoopReads : RangeTickBalances(i, b)
          \/ RangeTickTokenLookup(i, TRUE)
          \/ \E e \in RangeAccounts : RangeTickAccountCheck(i, e)
          \/ \E ok \in BOOLEAN : RangeTickSwap(i, ok)
    \/ RangeAdvance
    \/ StopAllSchedules

SpecLoop == LoopInit /\ [][LoopNext]_vars

\* the driver has set its interval
LoopStarted == rangeCall.pc \notin {"idle", "wallet", "rejected"}

LoopOutsideScheduler ==
    /\ DOMAIN activeSchedules = {}
    /\ GetScheduleInfo(activeSchedules, now) = {}
    /\ timers = {}
    /\ nextScheduleId = 1
    /\ ~statusUpdateInterval.armed
    /\ stopResult # Null => stopResult = [count |-> 0]
    /\ LoopStarted => rangeLoop.armed /\ rangeLoop.due > now - 1

MaxDeployments == 3

\* the while loop of processQueue at its condition: the next function is
\* shifted and called, and runs up to the await of deploymentFn(), which has
\* started the deployment; or the loop is over
Drain(D) ==
    IF Len(D.queue) > 0
    THEN LET d == Head(D.queue)
         IN  [D EXCEPT !.queue = Tail(@), !.running = d, !.pc = "awaiting",
                       !.jobs[d].state = "running", !.started = Append(@, d)]
    ELSE [D EXCEPT !.isProcessing = FALSE, !.pc = "idle", !.running = 0]

\* a processQueue that does not look at isProcessing
ProcessQueueUnguarded(D) ==
    IF Len(D.queue) = 0 THEN D ELSE Drain([D EXCEPT !.isProcessing = TRUE])
\* processQueue(), up to its first await
ProcessQueue(D) ==
    IF D.isProcessing \/ Len(D.queue) = 0 THEN D
    ELSE Drain([D EXCEPT !.isProcessing = TRUE])

\* add(deploymentFn): the function is pushed, then processQueue is called
QueueAdd(D, d) == ProcessQueue([D EXCEPT !.queue = Append(@, d)])

\* deployAgent(request): a Twitter bot is deployed at once, every other bot
\* through the queue
DeployAgent(botType) ==
    LET d == Len(deployments.jobs) + 1
        asked(state) == [deployments EXCEPT
                            !.jobs = Append(@, [botType |-> botType, state |-> state,
                                                promise |-> "pending"])]
    IN  /\ d <= MaxDeployments
        /\ deployments' = IF botType = "twitter" THEN asked("running")
                          ELSE QueueAdd(asked("queued"), d)
        /\ UNCHANGED <<storeVars, readVars, schedVars, tradeVars, probe, priceWait, cacheVars,
                       driverVars, withdrawal, funds, custom>>

\* the promise of deployAgentDirect for deployment d settles.  That of a
\* Twitter bot is the promise deployAgent returned; that of a queued bot is
\* awaited by the function the queue called.
DeploymentSettles(d, outcome) ==
    /\ d \in DOMAIN deployments.jobs
    /\ deployments.jobs[d].state = "running"
    /\ deployments' =
          IF deployments.jobs[d].botType = "twitter"
          THEN [deployments EXCEPT !.jobs[d].state = outcome, !.jobs[d].promise = outcome]
          ELSE [deployments EXCEPT !.jobs[d].state = outcome,
                                   !.pc = IF d = deployments.running THEN "settled" ELSE @]
    /\ UNCHANGED <<storeVars, readVars, schedVars, tradeVars, probe, priceWait, cacheVars,
                   driverVars, withdrawal, funds, custom>>

\* the queued function goes on after its await: resolve(result) or
\* reject(error), and its own promise is fulfilled
WrapperResumes ==
    /\ deployments.pc = "settled"
    /\ deployments' = [deployments EXCEPT
                          !.jobs[deployments.running].promise =
                              deployments.jobs[deployments.running].state,
                          !.pc = "wrapped"]
    /\ UNCHANGED <<storeVars, readVars, schedVars, tradeVars, probe, priceWait, cacheVars,
                   driverVars, withdrawal, funds, custom>>

\* processQueue goes on after await deploymentFn(): the loop's condition
QueueResumes ==
    /\ deployments.pc = "wrapped"
    /\ deployments' = Drain(deployments)
    /\ UNCHANGED <<storeVars, readVars, schedVars, tradeVars, probe, priceWait, cacheVars,
                   driverVars, withdrawal, funds, custom>>

BotTypes == {"dca", "twitter"}
SettleOutcomes == {"fulfilled", "rejected"}

DeployInit ==
    /\ StoreIdle
    /\ ReadIdle
    /\ SchedIdle
    /\ TradeIdle
    /\ RangeIdle

DeployNext ==
    \/ \E b \in BotTypes : DeployAgent(b)
    \/ \E d \in 1..MaxDeployments, o \in SettleOutcomes : DeploymentSettles(d, o)
    \/ WrapperResumes
    \/ QueueResumes

\* every deployment that was started settles, and the continuations run
SpecDeploy ==
    /\ DeployInit
    /\ [][DeployNext]_vars
    /\ WF_vars(\E d \in 1..MaxDeployments, o \in SettleOutcomes : DeploymentSettles(d, o))
    /\ WF_vars(WrapperResumes)
    /\ WF_vars(QueueResumes)

\* the deployments that went through the queue, in the order of their calls
QueuedJobs(D) == SelectSeq([i \in 1..Len(D.jobs) |-> i], LAMBDA i : D.jobs[i].botType # "twitter")
Settled(j) == j.state \in SettleOutcomes

\* how far deployment d is, and what the promise of its deployAgent call holds
StateOf(d) == IF d \in DOMAIN deployments.jobs THEN deployments.jobs[d].state ELSE "none"
PromiseOf(d) == IF d \in DOMAIN deployments.jobs THEN deployments.jobs[d].promise ELSE "none"

QueueInOrder ==
    LET D == deployments
    IN  /\ D.started \o D.queue = QueuedJobs(D)
        /\ \A k \in 1..Len(D.started) :
              k < Len(D.started) => Settled(D.jobs[D.started[k]])
        /\ Cardinality({d \in DOMAIN D.jobs :
                           D.jobs[d].botType # "twitter" /\ D.jobs[d].state = "running"}) <= 1
        /\ \A k \in 1..Len(D.queue) : D.jobs[D.queue[k]].state = "queued"
        /\ Len(D.queue) > 0 => D.isProcessing /\ D.pc # "idle"
        /\ D.isProcessing <=> D.pc # "idle"
        /\ \A d \in DOMAIN D.jobs :
              /\ D.jobs[d].promise # "pending" => D.jobs[d].promise = D.jobs[d].state
              /\ D.jobs[d].promise = "pending" /\ Settled(D.jobs[d]) =>
                     d = D.running /\ D.pc = "settled"

\* C40: the DeploymentQueue runs the queued deployments one at a time in the
\* order of their add calls: a deployment is started only when every
\* deployment added before it has settled, fulfilled or rejected; whenever a
\* function is in the queue the processing loop is active, so an add that
\* comes between the end of a deployment and the loop's next turn is not
\* lost, and every queued deployment is started in the end; the promise of
\* each add settles with the outcome of its own deployment.
C40_OneAtATimeInOrder ==
    /\ []QueueInOrder
    /\ [][\A d \in DOMAIN deployments'.jobs :
             (deployments'.jobs[d].botType # "twitter"
              /\ deployments'.jobs[d].state = "running"
              /\ (d \notin DOMAIN deployments.jobs \/ deployments.jobs[d].state = "queued")) =>
                \A c \in 1..(d - 1) :
                    deployments.jobs[c].botType # "twitter" => Settled(deployments.jobs[c])]_vars
    /\ \A d \in 1..MaxDeployments : (StateOf(d) = "queued") ~> (StateOf(d) = "running")
    /\ \A d \in 1..MaxDeployments : (StateOf(d) = "running") ~> (PromiseOf(d) = StateOf(d))

\* three deployments went through the queue; the first was rejected, the
\* other two ran after it, in the order they were added, and each promise
\* has the outcome of its own deployment
C40_Witness ==
    /\ Len(deployments.jobs) = 3
    /\ \A d \in 1..3 : deployments.jobs[d].botType = "dca"
    /\ deployments.started = <<1, 2, 3>>
    /\ deployments.jobs[1].promise = "rejected"
    /\ deployments.jobs[2].promise = "fulfilled"
    /\ deployments.jobs[3].promise = "fulfilled"
    /\ deployments.queue = <<>>
    /\ ~deployments.isProcessing

====
